---- MODULE Spec2Model ----
(***************************************************************************)
(* A model of mylog (src/src/mylog/__init__.py): the Level coercion, the   *)
(* Logger tree with its enabled / propagate / threshold decision logic,    *)
(* child creation and inheritance, handler dispatch and the scoped helpers.*)
(*                                                                         *)
(* Python objects that are shared by reference (the history list and the   *)
(* handler list of a logger) live in heaps indexed by object ids, so that  *)
(* aliasing is a fact of the model and not an assumption.  The wall-clock  *)
(* time of a LogEvent is left out: no decision of the code reads it.       *)
(***************************************************************************)
EXTENDS Integers, Sequences, FiniteSets, TLC

VARIABLES
    phase,        \* "loading" while the module body runs, then "ready"
    _allow_root,  \* the module-level guard flag (lines 811, 813)
    loggers,      \* logger id -> the Logger object's attributes
    lists,        \* heap of history lists: object id -> Seq(LogEvent)
    hlists,       \* heap of handler lists: object id -> Seq(handler id)
    uuids,        \* number of uuid4() tokens drawn so far
    cts,          \* the ChangeThreshold objects constructed so far
    stack,        \* the `with` blocks currently open, innermost last
    last          \* the last call made: its arguments, effects and result

vars == <<phase, _allow_root, loggers, lists, hlists, uuids, cts, stack, last>>

(***************************************************************************)
(* Bounds of the model.                                                    *)
(***************************************************************************)
MaxSize == 5
MaxScopes == 2
MaxCT == 1
MaxHistory == 1

(***************************************************************************)
(* Values.  A Levelable is a Level member, a plain int or a str.           *)
(***************************************************************************)
None == -1

debug == 10
info == 20
warning == 30
error == 40
critical == 50

LevelValues == {debug, info, warning, error, critical}

Lv(v) == [k |-> "Level", v |-> v, s |-> ""]
In(v) == [k |-> "int", v |-> v, s |-> ""]
St(s) == [k |-> "str", v |-> 0, s |-> s]
NoValue == [k |-> "none", v |-> 0, s |-> ""]
\* An object that is no Level, int or str, by its str(): None, a list.
Ot(s) == [k |-> "other", v |-> 0, s |-> s]

\* The members of the enum by name; warn and fatal are aliases.
LevelNames == {"debug", "info", "warning", "error", "critical", "warn", "fatal"}

LevelByName(s) ==
    CASE s = "debug" -> Lv(debug)
      [] s = "info" -> Lv(info)
      [] s = "warning" -> Lv(warning)
      [] s = "error" -> Lv(error)
      [] s = "critical" -> Lv(critical)
      [] s = "warn" -> Lv(warning)
      [] s = "fatal" -> Lv(critical)

DEFAULT_THRESHOLD == Lv(warning)
DEFAULT_FORMAT == "[{lvl} {time} line: {line}] {indent}{msg}"

\* The decimal strings the model draws from, and what int() makes of them.
DecimalStrings == {"10", "20", "30", "40", "50", "35", "5", "0", "15", "25", "45"}

ParseDecimal(s) ==
    CASE s = "10" -> 10
      [] s = "20" -> 20
      [] s = "30" -> 30
      [] s = "40" -> 40
      [] s = "50" -> 50
      [] s = "35" -> 35
      [] s = "5" -> 5
      [] s = "0" -> 0
      [] s = "15" -> 15
      [] s = "25" -> 25
      [] s = "45" -> 45

\* A result of a call that may raise: ok with a value, or the exception.
Ok(val) == [ok |-> TRUE, val |-> val, exc |-> ""]
Raise(exc, val) == [ok |-> FALSE, val |-> val, exc |-> exc]

\* Level(x): the enum's lookup by value.
LevelCall(x) ==
    IF x.k = "Level" THEN Ok(x)
    ELSE IF x.k = "int" /\ x.v \in LevelValues THEN Ok(Lv(x.v))
    ELSE Raise("ValueError", x)

\* int(x): a TypeError for an object that is no number and no string
IntCall(x) ==
    IF x.k \in {"Level", "int"} THEN Ok(In(x.v))
    ELSE IF x.k = "other" THEN Raise("TypeError", x)
    ELSE IF x.s \in DecimalStrings THEN Ok(In(ParseDecimal(x.s)))
    ELSE Raise("ValueError", x)

\* str(x) of an int or a str (to_level never takes str() of a Level)
StrCall(x) ==
    IF x.k \in {"str", "other"} THEN x.s
    ELSE CASE x.v = 10 -> "10"
           [] x.v = 20 -> "20"
           [] x.v = 30 -> "30"
           [] x.v = 40 -> "40"
           [] x.v = 50 -> "50"
           [] x.v = 35 -> "35"
           [] x.v = 5 -> "5"
           [] x.v = 0 -> "0"
           [] x.v = 15 -> "15"
           [] x.v = 25 -> "25"
           [] x.v = 45 -> "45"

\* Attributes of the class Level that are no members, and their values:
\* the docstring of line 47, the name of the class.
ClassAttributes == {"__doc__", "__name__"}

ClassAttribute(name) ==
    CASE name = "__doc__" -> St("Level for the log message.")
      [] name = "__name__" -> St("Level")

\* The names of the members in upper case and capitalised.
CaseVariants ==
    {"DEBUG", "INFO", "WARNING", "ERROR", "CRITICAL", "WARN", "FATAL",
     "Debug", "Info", "Warning", "Error", "Critical", "Warn", "Fatal"}

\* str.lower() on the names and their variants
Lower(s) ==
    CASE s \in {"DEBUG", "Debug"} -> "debug"
      [] s \in {"INFO", "Info"} -> "info"
      [] s \in {"WARNING", "Warning"} -> "warning"
      [] s \in {"ERROR", "Error"} -> "error"
      [] s \in {"CRITICAL", "Critical"} -> "critical"
      [] s \in {"WARN", "Warn"} -> "warn"
      [] s \in {"FATAL", "Fatal"} -> "fatal"
      [] OTHER -> s

\* getattr that ignores the case of the name
GetattrLevel_CaseInsensitive(name) ==
    IF Lower(name) \in LevelNames THEN Ok(LevelByName(Lower(name)))
    ELSE IF name \in ClassAttributes THEN Ok(ClassAttribute(name))
    ELSE Raise("AttributeError", St(name))

\* getattr(Level, name): case-sensitive attribute lookup on the enum class.
GetattrLevel(name) ==
    IF name \in LevelNames THEN Ok(LevelByName(name))
    ELSE IF name \in ClassAttributes THEN Ok(ClassAttribute(name))
    ELSE Raise("AttributeError", St(name))

\* to_level without the second attempt, Level(int(lvl))
to_level_NoIntAttempt(lvl, int_ok) ==
    LET r1 == LevelCall(lvl)
        i == IntCall(lvl)
        r3 == GetattrLevel(StrCall(lvl))
    IN  IF r1.ok THEN r1
        ELSE IF r3.ok THEN r3
        ELSE IF int_ok /\ i.ok THEN Ok(i.val)
        ELSE Raise("ValueError", lvl)

to_level(lvl, int_ok) ==
    LET r1 == LevelCall(lvl)
        i == IntCall(lvl)
        r2 == IF i.ok THEN LevelCall(i.val) ELSE i
        r3 == GetattrLevel(StrCall(lvl))
    IN  IF r1.ok THEN r1
        ELSE IF r2.ok THEN r2
        ELSE IF r2.exc = "TypeError" THEN r2
        ELSE IF r3.ok THEN r3
        ELSE IF int_ok /\ i.ok THEN Ok(i.val)
        ELSE Raise("ValueError", lvl)

(***************************************************************************)
(* LogEvent (lines 234-243), without its time field.                       *)
(***************************************************************************)
LogEvent(msg, level, indent, frame_depth, tb) ==
    [msg |-> msg, level |-> level, indent |-> indent,
     frame_depth |-> frame_depth, tb |-> tb]

NoEvent == LogEvent("", NoValue, 0, 0, FALSE)

(***************************************************************************)
(* What a call does that its caller can observe besides the heap: the      *)
(* warnings it emits, the _log calls it makes and the handlers it invokes, *)
(* in order.                                                               *)
(***************************************************************************)
Entry(e, logger, handler, n, event) ==
    [e |-> e, logger |-> logger, handler |-> handler, n |-> n, event |-> event]

Emit(st, entry) == [st EXCEPT !.trace = Append(@, entry)]

\* The handlers of the model: the one get_default_handlers() builds, and
\* two more that a caller attaches.
StderrHandler == 1
\* A handler that is in no handler list.
DirectHandler == 0

\* The handlers that are StreamWriterHandlers: the one of line 390, with
\* the defaults of lines 299-301, and one that neither formats, colours
\* nor flushes.
Writers ==
    (StderrHandler :> [flush |-> TRUE, use_colors |-> TRUE, format_msg |-> TRUE])
        @@ (StderrHandler + 1 :>
                [flush |-> FALSE, use_colors |-> FALSE, format_msg |-> FALSE])
NumHandlers == 3
HandlerIds == 1..NumHandlers

(***************************************************************************)
(* Rendering.  A rendered str is modelled as the sequence of its pieces:   *)
(* one piece for each replacement field of the format, then the traceback  *)
(* and the newline.  The literal text between the fields of a format is    *)
(* left out.  A piece has the field it fills (f), its text (s), a number   *)
(* (n: the indentation units, the width a level is padded to, the depth of *)
(* the frame whose line number is printed) and a colour (c).               *)
(***************************************************************************)
Piece(f, s, n, c) == [f |-> f, s |-> s, n |-> n, c |-> c]

\* The keyword arguments of line 507-513.
FormatKeys == {"indent", "lvl", "time", "line", "msg"}

\* The replacement fields of the formats the model draws from, in order.
Fields(format) ==
    CASE format = DEFAULT_FORMAT -> <<"lvl", "time", "line", "indent", "msg">>
      [] format = "{msg}" -> <<"msg">>
      [] format = "{lvl}{nope}" -> <<"lvl", "nope">>

\* Level.name.upper() of a member
UpperName(v) ==
    CASE v = debug -> "DEBUG"
      [] v = info -> "INFO"
      [] v = warning -> "WARNING"
      [] v = error -> "ERROR"
      [] v = critical -> "CRITICAL"

\* Logger._color (lines 428-455): the five names are padded to 8 and
\* coloured, any other text is returned as it is.
_color(rv) ==
    CASE rv.s = "DEBUG" -> Piece("lvl", rv.s, 8, "blue")
      [] rv.s = "INFO" -> Piece("lvl", rv.s, 8, "cyan")
      [] rv.s = "WARNING" -> Piece("lvl", rv.s, 8, "yellow")
      [] rv.s = "ERROR" -> Piece("lvl", rv.s, 8, "red")
      [] rv.s = "CRITICAL" -> Piece("lvl", rv.s, 8, "red on_yellow")
      [] OTHER -> rv

\* Logger.level_to_str (lines 457-481), of a Levelable (line 467); colors
\* is self.colors.
level_to_str(colors, lvl) ==
    LET name(r) == IF r.ok /\ r.val.k = "Level"
                   THEN Piece("lvl", UpperName(r.val.v), 0, "")
                   ELSE Piece("lvl", StrCall(lvl), 8, "")
        alias(rv) == IF rv.s = "WARN" /\ rv.n = 0 THEN [rv EXCEPT !.s = "WARNING"]
                     ELSE IF rv.s = "FATAL" /\ rv.n = 0
                     THEN [rv EXCEPT !.s = "CRITICAL"]
                     ELSE rv
        coloured(rv) == IF colors THEN _color(rv) ELSE rv
    IN  coloured(alias(name(to_level(lvl, FALSE))))

\* format_msg that raises where line 500 warns
format_msg_RaisesWithoutTraceback(st, self, event) ==
    LET me == st.loggers[self]
        _tb == IF ~event.tb THEN <<>>
               ELSE <<Piece("tb", "\nTraceback", 0, "")>>
        fields == Fields(me.format)
        value(f) == CASE f = "indent" -> Piece("indent", "  ", me.indent, "")
                      [] f = "lvl" -> level_to_str(me.colors, event.level)
                      [] f = "time" -> Piece("time", "", 0, "")
                      [] f = "line" -> Piece("line", "", event.frame_depth, "")
                      [] f = "msg" -> Piece("msg", event.msg, 0, "")
    IN  IF ~st.env.deep THEN [st |-> st, r |-> Raise("ValueError", <<>>)]
        ELSE IF event.tb /\ ~st.env.exc
        THEN [st |-> st, r |-> Raise("UserWarning", <<>>)]
        ELSE IF \E i \in DOMAIN fields : fields[i] \notin FormatKeys
        THEN [st |-> st, r |-> Raise("KeyError", <<>>)]
        ELSE [st |-> st,
              r |-> Ok([i \in DOMAIN fields |-> value(fields[i])] \o _tb
                           \o <<Piece("nl", "\n", 0, "")>>)]

\* Logger.format_msg (lines 483-516).  st.env says whether an exception is
\* being handled (exc) and whether the stack has a frame at the depth the
\* event names (deep).  The result is the state, with the warning if one
\* was emitted, and the str or the exception raised.
format_msg(st, self, event) ==
    LET me == st.loggers[self]
        _indent == Piece("indent", "  ", me.indent, "")
        _lvl == level_to_str(me.colors, event.level)
        _time == Piece("time", "", 0, "")
        _line == Piece("line", "", event.frame_depth, "")
        _msg == Piece("msg", event.msg, 0, "")
        w == IF event.tb /\ ~st.env.exc
             THEN Emit(st, Entry("warn-no-traceback", self, 0,
                                 event.frame_depth - 1, event))
             ELSE st
        _tb == IF ~event.tb THEN <<>>
               ELSE IF st.env.exc THEN <<Piece("tb", "\nTraceback", 0, "")>>
               ELSE <<Piece("tb", "\nNoneType: None\n", 0, "")>>
        fields == Fields(me.format)
        value(f) == CASE f = "indent" -> _indent
                      [] f = "lvl" -> _lvl
                      [] f = "time" -> _time
                      [] f = "line" -> _line
                      [] f = "msg" -> _msg
    IN  IF ~st.env.deep THEN [st |-> st, r |-> Raise("ValueError", <<>>)]
        ELSE IF \E i \in DOMAIN fields : fields[i] \notin FormatKeys
        THEN [st |-> w, r |-> Raise("KeyError", <<>>)]
        ELSE [st |-> w,
              r |-> Ok([i \in DOMAIN fields |-> value(fields[i])] \o _tb
                           \o <<Piece("nl", "\n", 0, "")>>)]

(***************************************************************************)
(* SetAttr (lines 202-231) on an attribute of a logger.  The value that    *)
(* __enter__ keeps in self.old_value is handed to __exit__.                *)
(***************************************************************************)
SetAttr__init__(obj, name, new_value) ==
    [obj |-> obj, name |-> name, new_value |-> new_value]

SetAttr__enter__(st, sa) ==
    [st EXCEPT !.loggers[sa.obj][sa.name] = sa.new_value]

\* __exit__ that leaves the attribute at the new value
SetAttr__exit__Keep(st, sa, old_value) == st

SetAttr__exit__(st, sa, old_value) ==
    [st EXCEPT !.loggers[sa.obj][sa.name] = old_value]

(***************************************************************************)
(* StreamWriterHandler (lines 292-340).  What is done to the stream is an  *)
(* effect of the call: a "write" entry with the str written, a "flush"     *)
(* entry.  The write of a handler in st.failing raises.                    *)
(***************************************************************************)
StreamWriterHandler__init__(flush, use_colors, format_msg_) ==
    [flush |-> flush, use_colors |-> use_colors, format_msg |-> format_msg_]

StreamEntry(e, logger, h, str) ==
    [e |-> e, logger |-> logger, handler |-> h, n |-> 0, event |-> NoEvent,
     str |-> str]

\* handle that flushes the stream before it writes to it
StreamWriterHandler_handle_FlushFirst(st, h, logger, event) ==
    LET self == st.writers[h]
        sa == SetAttr__init__(logger, "colors", self.use_colors)
        old_value == st.loggers[logger].colors
        rest(f) ==
            LET s2 == SetAttr__exit__(f.st, sa, old_value)
                s3 == IF self.flush
                      THEN Emit(s2, StreamEntry("flush", logger, h, <<>>))
                      ELSE s2
                s4 == Emit(s3, StreamEntry("write", logger, h, f.r.val))
            IN  IF ~f.r.ok THEN [s2 EXCEPT !.ret = f.r.exc]
                ELSE IF h \in st.failing
                THEN [Emit(s4, Entry("raise", logger, h, 0, event))
                         EXCEPT !.ret = "HandlerError"]
                ELSE [s4 EXCEPT !.ret = "None"]
    IN  rest(IF self.format_msg
             THEN format_msg(SetAttr__enter__(st, sa), logger, event)
             ELSE [st |-> SetAttr__enter__(st, sa),
                   r |-> Ok(<<Piece("msg", event.msg, 0, "")>>)])

\* StreamWriterHandler.handle (lines 324-340), of the handler h: the block
\* of line 333 (f is its outcome: the state and msg, or the exception) and
\* what follows it.
StreamWriterHandler_handle(st, h, logger, event) ==
    LET self == st.writers[h]
        sa == SetAttr__init__(logger, "colors", self.use_colors)
        old_value == st.loggers[logger].colors
        rest(f) ==
            LET s2 == SetAttr__exit__(f.st, sa, old_value)
                s3 == Emit(s2, StreamEntry("write", logger, h, f.r.val))
                s4 == IF self.flush
                      THEN Emit(s3, StreamEntry("flush", logger, h, <<>>))
                      ELSE s3
            IN  IF ~f.r.ok THEN [s2 EXCEPT !.ret = f.r.exc]
                ELSE IF h \in st.failing
                THEN [Emit(s3, Entry("raise", logger, h, 0, event))
                         EXCEPT !.ret = "HandlerError"]
                ELSE [s4 EXCEPT !.ret = "None"]
    IN  rest(IF self.format_msg
             THEN format_msg(SetAttr__enter__(st, sa), logger, event)
             ELSE [st |-> SetAttr__enter__(st, sa),
                   r |-> Ok(<<Piece("msg", event.msg, 0, "")>>)])

(***************************************************************************)
(* Handler.handle: the handler is invoked with the logger that dispatches  *)
(* and the event, and sees the history of that logger as it is then (n is  *)
(* its length).  The handlers in st.writers are StreamWriterHandlers; of   *)
(* any other handler only this is modelled: one whose stream fails         *)
(* (st.failing) raises, any other returns None.                            *)
(***************************************************************************)
handle(st, h, logger, event) ==
    LET s1 == Emit(st, Entry("handle", logger, h,
                             Len(st.lists[st.loggers[logger].list]), event))
    IN  IF h \in DOMAIN st.writers
        THEN StreamWriterHandler_handle(s1, h, logger, event)
        ELSE IF h \in st.failing
        THEN [Emit(s1, Entry("raise", logger, h, 0, event)) EXCEPT !.ret = "HandlerError"]
        ELSE [s1 EXCEPT !.ret = "None"]

(***************************************************************************)
(* Logger                                                                  *)
(***************************************************************************)
\* A Logger object on which only self.higher has been set (line 412 / 416);
\* its colors is the attribute of the class (line 347).
NewObject(higher) ==
    [higher |-> higher, propagate |-> FALSE, _id |-> 0, list |-> 0,
     indent |-> 0, enabled |-> TRUE, format |-> "", threshold |-> NoValue,
     handlers |-> 0, colors |-> TRUE]

\* self.list = []  allocates a new list object.
AllocList(st) == [st EXCEPT !.lists = Append(@, <<>>)]

\* _inherit that takes the parent's _id as well
_inherit_InheritsId(st, self) ==
    LET s1 == AllocList(st)
        higher == s1.loggers[self].higher
        s2 == [s1 EXCEPT !.loggers[self].propagate = FALSE,
                         !.loggers[self]._id =
                             IF higher = None THEN @ ELSE s1.loggers[higher]._id,
                         !.loggers[self].list = Len(s1.lists),
                         !.loggers[self].indent = 0,
                         !.loggers[self].enabled = TRUE]
    IN  IF higher = None
        THEN [s2 EXCEPT !.ret = "AttributeError"]
        ELSE [s2 EXCEPT !.loggers[self].format = s2.loggers[higher].format,
                        !.loggers[self].threshold = s2.loggers[higher].threshold,
                        !.loggers[self].handlers = s2.loggers[higher].handlers,
                        !.ret = "None"]

\* _inherit that binds the child's history to the parent's list
_inherit_SharedHistory(st, self) ==
    LET s1 == [st EXCEPT !.uuids = @ + 1]
        higher == s1.loggers[self].higher
        s2 == [s1 EXCEPT !.loggers[self].propagate = FALSE,
                         !.loggers[self]._id = s1.uuids,
                         !.loggers[self].list =
                             IF higher = None THEN 0 ELSE s1.loggers[higher].list,
                         !.loggers[self].indent = 0,
                         !.loggers[self].enabled = TRUE]
    IN  IF higher = None
        THEN [s2 EXCEPT !.ret = "AttributeError"]
        ELSE [s2 EXCEPT !.loggers[self].format = s2.loggers[higher].format,
                        !.loggers[self].threshold = s2.loggers[higher].threshold,
                        !.loggers[self].handlers = s2.loggers[higher].handlers,
                        !.ret = "None"]

\* Logger._inherit (lines 366-380)
_inherit(st, self) ==
    LET s1 == AllocList([st EXCEPT !.uuids = @ + 1])
        s2 == [s1 EXCEPT !.loggers[self].propagate = FALSE,
                         !.loggers[self]._id = s1.uuids,
                         !.loggers[self].list = Len(s1.lists),
                         !.loggers[self].indent = 0,
                         !.loggers[self].enabled = TRUE]
        higher == s2.loggers[self].higher
    IN  IF higher = None
        THEN [s2 EXCEPT !.ret = "AttributeError"]
        ELSE [s2 EXCEPT !.loggers[self].format = s2.loggers[higher].format,
                        !.loggers[self].threshold = s2.loggers[higher].threshold,
                        !.loggers[self].handlers = s2.loggers[higher].handlers,
                        !.ret = "None"]

\* Logger.get_default_handlers (lines 382-390): a new list with a new
\* StreamWriterHandler(sys.stderr).
get_default_handlers(st) == [st EXCEPT !.hlists = Append(@, <<StderrHandler>>)]

\* Logger.__init__ without the guard of lines 405-410
Logger__init__Unguarded(st, allow, higher) ==
    LET self == Cardinality(DOMAIN st.loggers)
        s0 == [st EXCEPT !.loggers = @ @@ (self :> NewObject(higher))]
    IN  IF higher # None
        THEN _inherit(s0, self)
        ELSE LET s1 == get_default_handlers(AllocList([s0 EXCEPT !.uuids = @ + 1]))
             IN  [s1 EXCEPT !.loggers[self].propagate = FALSE,
                            !.loggers[self].list = Len(s1.lists),
                            !.loggers[self].indent = 0,
                            !.loggers[self].format = DEFAULT_FORMAT,
                            !.loggers[self].threshold = DEFAULT_THRESHOLD,
                            !.loggers[self].enabled = TRUE,
                            !.loggers[self]._id = s1.uuids,
                            !.loggers[self].handlers = Len(s1.hlists),
                            !.ret = "None"]

\* Logger.__init__ (lines 392-426); allow is the value of _allow_root.
Logger__init__(st, allow, higher) ==
    LET self == Cardinality(DOMAIN st.loggers)
        s0 == [st EXCEPT !.loggers = @ @@ (self :> NewObject(higher))]
    IN  IF higher = None /\ ~allow
        THEN [st EXCEPT !.ret = "ValueError"]
        ELSE IF higher # None
        THEN _inherit(s0, self)
        ELSE LET s1 == get_default_handlers(AllocList([s0 EXCEPT !.uuids = @ + 1]))
             IN  [s1 EXCEPT !.loggers[self].propagate = FALSE,
                            !.loggers[self].list = Len(s1.lists),
                            !.loggers[self].indent = 0,
                            !.loggers[self].format = DEFAULT_FORMAT,
                            !.loggers[self].threshold = DEFAULT_THRESHOLD,
                            !.loggers[self].enabled = TRUE,
                            !.loggers[self]._id = s1.uuids,
                            !.loggers[self].handlers = Len(s1.hlists),
                            !.ret = "None"]

\* Logger.get_child (lines 693-703): type(self)(self)
get_child(st, allow, self) == Logger__init__(st, allow, self)

\* An object that is no Logger
OtherObject == -2

\* Logger.__eq__ (lines 350-356); o is a logger or some other object
Logger__eq__(lg, self, o) ==
    IF o \in DOMAIN lg
    THEN IF lg[self]._id = lg[o]._id THEN "True" ELSE "False"
    ELSE "NotImplemented"

\* Logger.__ne__ (lines 358-364)
Logger__ne__(lg, self, o) ==
    IF o \in DOMAIN lg
    THEN IF lg[self]._id # lg[o]._id THEN "True" ELSE "False"
    ELSE "NotImplemented"

\* is_enabled_for with the comparison turned round (lvl <= threshold)
is_enabled_for_Reversed(st, self, lvl) ==
    LET l == to_level(lvl, TRUE)
        th == st.loggers[self].threshold
        w == Emit(st, Entry("warn-threshold-type", self, 0, 0, NoEvent))
        t == to_level(th, TRUE)
    IN  IF ~l.ok THEN [st EXCEPT !.ret = l.exc]
        ELSE IF th.k = "Level"
        THEN [st EXCEPT !.ret = IF l.val.v <= th.v THEN "True" ELSE "False"]
        ELSE IF ~t.ok THEN [w EXCEPT !.ret = t.exc]
        ELSE [w EXCEPT !.loggers[self].threshold = t.val,
                       !.ret = IF l.val.v <= t.val.v THEN "True" ELSE "False"]

\* is_enabled_for with a strict comparison (lvl > threshold)
is_enabled_for_Strict(st, self, lvl) ==
    LET l == to_level(lvl, TRUE)
        th == st.loggers[self].threshold
        w == Emit(st, Entry("warn-threshold-type", self, 0, 0, NoEvent))
        t == to_level(th, TRUE)
    IN  IF ~l.ok THEN [st EXCEPT !.ret = l.exc]
        ELSE IF th.k = "Level"
        THEN [st EXCEPT !.ret = IF l.val.v > th.v THEN "True" ELSE "False"]
        ELSE IF ~t.ok THEN [w EXCEPT !.ret = t.exc]
        ELSE [w EXCEPT !.loggers[self].threshold = t.val,
                       !.ret = IF l.val.v > t.val.v THEN "True" ELSE "False"]

\* Logger.is_enabled_for (lines 705-725); ret is "True", "False" or the
\* exception a conversion raised.
is_enabled_for(st, self, lvl) ==
    LET l == to_level(lvl, TRUE)
        th == st.loggers[self].threshold
        w == Emit(st, Entry("warn-threshold-type", self, 0, 0, NoEvent))
        t == to_level(th, TRUE)
    IN  IF ~l.ok THEN [st EXCEPT !.ret = l.exc]
        ELSE IF th.k = "Level"
        THEN [st EXCEPT !.ret = IF l.val.k = "str" THEN "TypeError"
                                ELSE IF l.val.v >= th.v THEN "True" ELSE "False"]
        ELSE IF ~t.ok THEN [w EXCEPT !.ret = t.exc]
        ELSE [w EXCEPT !.loggers[self].threshold = t.val,
                       !.ret = IF l.val.k = "str" \/ t.val.k = "str" THEN "TypeError"
                               ELSE IF l.val.v >= t.val.v THEN "True" ELSE "False"]

\* The loop that goes on to the next handler when one raises
RECURSIVE Dispatch_Isolating(_, _, _, _)
Dispatch_Isolating(st, self, event, i) ==
    LET hs == st.hlists[st.loggers[self].handlers]
        s == handle(st, hs[i], self, event)
    IN  IF i > Len(hs) THEN [st EXCEPT !.ret = "None"]
        ELSE Dispatch_Isolating(s, self, event, i + 1)

\* The loop of lines 554-555 from the i-th handler on.
RECURSIVE Dispatch(_, _, _, _)
Dispatch(st, self, event, i) ==
    LET hs == st.hlists[st.loggers[self].handlers]
        rest(s) == IF s.ret # "None" THEN s
                   ELSE Dispatch(s, self, event, i + 1)
    IN  IF i > Len(hs) THEN [st EXCEPT !.ret = "None"]
        ELSE rest(handle(st, hs[i], self, event))

\* _actually_log that dispatches the event before it appends it
_actually_log_DispatchFirst(st, self, lvl, msg, frame_depth, tb) ==
    LET l == to_level(lvl, TRUE)
        event == LogEvent(StrCall(msg), l.val, st.loggers[self].indent,
                          frame_depth, tb)
        d == Dispatch(st, self, event, 1)
        s1 == [d EXCEPT !.lists[st.loggers[self].list] = Append(@, event)]
    IN  IF ~l.ok THEN [st EXCEPT !.ret = l.exc]
        ELSE IF d.ret # "None" THEN d ELSE [s1 EXCEPT !.ret = "LogEvent"]

\* _actually_log that builds every event with the indent 0
_actually_log_NoIndent(st, self, lvl, msg, frame_depth, tb) ==
    LET l == to_level(lvl, TRUE)
        event == LogEvent(StrCall(msg), l.val, 0, frame_depth, tb)
        s1 == [st EXCEPT !.lists[st.loggers[self].list] = Append(@, event)]
    IN  IF ~l.ok THEN [st EXCEPT !.ret = l.exc]
        ELSE LET d == Dispatch(s1, self, event, 1)
             IN  IF d.ret # "None" THEN d ELSE [d EXCEPT !.ret = "LogEvent"]

\* _actually_log that puts the event at the head of the history
_actually_log_Prepend(st, self, lvl, msg, frame_depth, tb) ==
    LET l == to_level(lvl, TRUE)
        event == LogEvent(StrCall(msg), l.val, st.loggers[self].indent,
                          frame_depth, tb)
        s1 == [st EXCEPT !.lists[st.loggers[self].list] = <<event>> \o @]
    IN  IF ~l.ok THEN [st EXCEPT !.ret = l.exc]
        ELSE LET d == Dispatch(s1, self, event, 1)
             IN  IF d.ret # "None" THEN d ELSE [d EXCEPT !.ret = "LogEvent"]

\* Logger._actually_log (lines 518-556)
_actually_log(st, self, lvl, msg, frame_depth, tb) ==
    LET returned(d) == IF d.ret # "None" THEN d ELSE [d EXCEPT !.ret = "LogEvent"]
        record(event) ==
            returned(Dispatch([st EXCEPT !.lists[st.loggers[self].list] =
                                             Append(@, event)],
                              self, event, 1))
        checked(l) ==
            IF ~l.ok THEN [st EXCEPT !.ret = l.exc]
            ELSE record(LogEvent(StrCall(msg), l.val, st.loggers[self].indent,
                                 frame_depth, tb))
    IN  checked(to_level(lvl, TRUE))

\* _log with the propagate check made before the enabled check
RECURSIVE _log_PropagateFirst(_, _, _, _, _, _)
_log_PropagateFirst(st, self, lvl, msg, traceback, frame_depth) ==
    LET s0 == Emit(st, Entry("_log", self, 0, frame_depth, NoEvent))
        me == st.loggers[self]
        s1 == is_enabled_for(s0, self, lvl)
    IN  IF me.propagate
        THEN IF me.higher = None
             THEN [Emit(s0, Entry("warn-root-propagate", self, 0, 0, NoEvent))
                      EXCEPT !.ret = "None"]
             ELSE _log_PropagateFirst(s0, me.higher, lvl, msg, traceback,
                                      frame_depth + 1)
        ELSE IF ~me.enabled THEN [s0 EXCEPT !.ret = "None"]
        ELSE IF s1.ret = "False" THEN [s1 EXCEPT !.ret = "None"]
        ELSE IF s1.ret # "True" THEN s1
        ELSE _actually_log(s1, self, lvl, msg, frame_depth, traceback)

\* _log that records at the logger itself when its own threshold admits
\* the level, and then propagates as well
RECURSIVE _log_RecordAndPropagate(_, _, _, _, _, _)
_log_RecordAndPropagate(st, self, lvl, msg, traceback, frame_depth) ==
    LET s0 == Emit(st, Entry("_log", self, 0, frame_depth, NoEvent))
        me == st.loggers[self]
        s1 == is_enabled_for(s0, self, lvl)
        s2 == IF s1.ret = "True"
              THEN _actually_log(s1, self, lvl, msg, frame_depth, traceback)
              ELSE s1
    IN  IF ~me.enabled THEN [s0 EXCEPT !.ret = "None"]
        ELSE IF s1.ret \notin {"True", "False"} THEN s1
        ELSE IF me.propagate
        THEN IF me.higher = None
             THEN [Emit(s0, Entry("warn-root-propagate", self, 0, 0, NoEvent))
                      EXCEPT !.ret = "None"]
             ELSE _log_RecordAndPropagate(s2, me.higher, lvl, msg, traceback,
                                          frame_depth + 1)
        ELSE IF s1.ret = "False" THEN [s1 EXCEPT !.ret = "None"]
        ELSE s2

\* _log that hands a propagated call to the root instead of the parent
RECURSIVE _log_ToRoot(_, _, _, _, _, _)
_log_ToRoot(st, self, lvl, msg, traceback, frame_depth) ==
    LET s0 == Emit(st, Entry("_log", self, 0, frame_depth, NoEvent))
        me == st.loggers[self]
        s1 == is_enabled_for(s0, self, lvl)
    IN  IF ~me.enabled THEN [s0 EXCEPT !.ret = "None"]
        ELSE IF me.propagate
        THEN IF me.higher = None
             THEN [Emit(s0, Entry("warn-root-propagate", self, 0, 0, NoEvent))
                      EXCEPT !.ret = "None"]
             ELSE _log_ToRoot(s0, 0, lvl, msg, traceback, frame_depth + 1)
        ELSE IF s1.ret = "False" THEN [s1 EXCEPT !.ret = "None"]
        ELSE IF s1.ret # "True" THEN s1
        ELSE _actually_log(s1, self, lvl, msg, frame_depth, traceback)

\* _log without the test for the root: a propagating root records
RECURSIVE _log_NoRootGuard(_, _, _, _, _, _)
_log_NoRootGuard(st, self, lvl, msg, traceback, frame_depth) ==
    LET s0 == Emit(st, Entry("_log", self, 0, frame_depth, NoEvent))
        me == st.loggers[self]
        s1 == is_enabled_for(s0, self, lvl)
    IN  IF ~me.enabled THEN [s0 EXCEPT !.ret = "None"]
        ELSE IF me.propagate /\ me.higher # None
        THEN _log_NoRootGuard(s0, me.higher, lvl, msg, traceback, frame_depth + 1)
        ELSE IF s1.ret = "False" THEN [s1 EXCEPT !.ret = "None"]
        ELSE IF s1.ret # "True" THEN s1
        ELSE _actually_log(s1, self, lvl, msg, frame_depth, traceback)

\* Logger._log (lines 558-606)
\* _log that hands frame_depth to the parent as it got it
RECURSIVE _log_SameDepth(_, _, _, _, _, _)
_log_SameDepth(st, self, lvl, msg, traceback, frame_depth) ==
    LET s0 == Emit(st, Entry("_log", self, 0, frame_depth, NoEvent))
        me == st.loggers[self]
        s1 == is_enabled_for(s0, self, lvl)
    IN  IF ~me.enabled THEN [s0 EXCEPT !.ret = "None"]
        ELSE IF me.propagate
        THEN IF me.higher = None
             THEN [Emit(s0, Entry("warn-root-propagate", self, 0, 0, NoEvent)) EXCEPT !.ret = "None"]
             ELSE _log_SameDepth(s0, me.higher, lvl, msg, traceback, frame_depth)
        ELSE IF s1.ret = "False" THEN [s1 EXCEPT !.ret = "None"]
        ELSE IF s1.ret # "True" THEN s1
        ELSE _actually_log(s1, self, lvl, msg, frame_depth, traceback)

RECURSIVE _log(_, _, _, _, _, _)
_log(st, self, lvl, msg, traceback, frame_depth) ==
    LET s0 == Emit(st, Entry("_log", self, 0, frame_depth, NoEvent))
        me == st.loggers[self]
        rest(s1) == IF s1.ret = "False" THEN [s1 EXCEPT !.ret = "None"]
                    ELSE IF s1.ret # "True" THEN s1
                    ELSE _actually_log(s1, self, lvl, msg, frame_depth, traceback)
    IN  IF ~me.enabled THEN [s0 EXCEPT !.ret = "None"]
        ELSE IF me.propagate
        THEN IF me.higher = None
             THEN [Emit(s0, Entry("warn-root-propagate", self, 0, 0, NoEvent))
                      EXCEPT !.ret = "None"]
             ELSE _log(s0, me.higher, lvl, msg, traceback, frame_depth + 1)
        ELSE rest(is_enabled_for(s0, self, lvl))

\* One frame of _log that hands the call to the logger itself
_log_frame_ToSelf(st, self, lvl, msg, traceback, frame_depth) ==
    LET me == st.loggers[self]
        s1 == is_enabled_for(st, self, lvl)
    IN  IF ~me.enabled THEN [st EXCEPT !.ret = "None"]
        ELSE IF me.propagate
        THEN [st EXCEPT !.ret = "_log", !.next = self, !.depth = frame_depth]
        ELSE IF s1.ret = "False" THEN [s1 EXCEPT !.ret = "None"]
        ELSE IF s1.ret # "True" THEN s1
        ELSE _actually_log(s1, self, lvl, msg, frame_depth, traceback)

\* One frame of Logger._log (lines 586-606): what the body does until it
\* returns or calls the parent's _log.  In the second case ret is "_log",
\* next the logger called and depth the frame_depth handed to it.
_log_frame(st, self, lvl, msg, traceback, frame_depth) ==
    LET s0 == Emit(st, Entry("_log", self, 0, frame_depth, NoEvent))
        me == st.loggers[self]
        rest(s1) == IF s1.ret = "False" THEN [s1 EXCEPT !.ret = "None"]
                    ELSE IF s1.ret # "True" THEN s1
                    ELSE _actually_log(s1, self, lvl, msg, frame_depth, traceback)
    IN  IF ~me.enabled THEN [s0 EXCEPT !.ret = "None"]
        ELSE IF me.propagate
        THEN IF me.higher = None
             THEN [Emit(s0, Entry("warn-root-propagate", self, 0, 0, NoEvent))
                      EXCEPT !.ret = "None"]
             ELSE [s0 EXCEPT !.ret = "_log", !.next = me.higher,
                             !.depth = frame_depth + 1]
        ELSE rest(is_enabled_for(s0, self, lvl))

(***************************************************************************)
(* The methods of the five levels (lines 608-691).                         *)
(***************************************************************************)
Logger_debug(st, self, msg, traceback) ==
    _log(st, self, Lv(debug), msg, traceback, 4)

Logger_info(st, self, msg, traceback) ==
    _log(st, self, Lv(info), msg, traceback, 4)

\* warning that logs at the level of info
Logger_warning_AtInfo(st, self, msg, traceback) ==
    _log(st, self, Lv(info), msg, traceback, 4)

Logger_warning(st, self, msg, traceback) ==
    _log(st, self, Lv(warning), msg, traceback, 4)

Logger_error(st, self, msg, traceback) ==
    _log(st, self, Lv(error), msg, traceback, 4)

Logger_critical(st, self, msg, traceback) ==
    _log(st, self, Lv(critical), msg, traceback, 4)

(***************************************************************************)
(* The scoped helpers.                                                     *)
(***************************************************************************)
\* IndentLogger.__enter__ (lines 741-749)
IndentLogger__enter__(st, logger) ==
    [st EXCEPT !.loggers[logger].indent = @ + 1, !.ret = "int"]

\* __exit__ that resets the indent instead of taking 1 from it
IndentLogger__exit__Reset(st, logger) ==
    [st EXCEPT !.loggers[logger].indent = 0, !.ret = "None"]

\* IndentLogger.__exit__ (lines 751-765)
IndentLogger__exit__(st, logger) ==
    [st EXCEPT !.loggers[logger].indent = @ - 1, !.ret = "None"]

\* ChangeThreshold.__init__ (lines 771-781); the object is built only if
\* to_level does not raise.
ChangeThreshold__init__(logger, level) ==
    [logger |-> logger, level |-> to_level(level, TRUE).val, old_level |-> NoValue]

\* __enter__ that sets the threshold of the logger and of its children
ChangeThreshold__enter__Cascading(st, c) ==
    [st EXCEPT !.loggers = [l \in DOMAIN @ |->
                               IF l = c.logger \/ @[l].higher = c.logger
                               THEN [@[l] EXCEPT !.threshold = c.level]
                               ELSE @[l]],
               !.ret = "Level"]

\* ChangeThreshold.__enter__ (lines 783-792), on the object c
ChangeThreshold__enter__(st, c) ==
    [st EXCEPT !.loggers[c.logger].threshold = c.level, !.ret = "Level"]

\* __exit__ that leaves the threshold as it is
ChangeThreshold__exit__Keep(st, c) == [st EXCEPT !.ret = "None"]

\* ChangeThreshold.__exit__ (lines 794-808), on the object c
ChangeThreshold__exit__(st, c) ==
    [st EXCEPT !.loggers[c.logger].threshold = c.old_level, !.ret = "None"]

(***************************************************************************)
(* The state machine.                                                      *)
(***************************************************************************)
State ==
    [loggers |-> loggers, lists |-> lists, hlists |-> hlists, uuids |-> uuids,
     trace |-> <<>>, ret |-> "None", failing |-> {}, writers |-> <<>>,
     env |-> [exc |-> FALSE, deep |-> TRUE], next |-> None, depth |-> 0]

Commit(st) ==
    /\ loggers' = st.loggers
    /\ lists' = st.lists
    /\ hlists' = st.hlists
    /\ uuids' = st.uuids

\* The record of a call: the operation, the object it was called on, its
\* Levelable argument, its integer argument, what it did and how it ended.
Call(op, logger, arg, n, st) ==
    [op |-> op, logger |-> logger, arg |-> arg, n |-> n,
     trace |-> st.trace, ret |-> st.ret, val |-> NoValue]

\* A store to an attribute is no call of the library.
NoCall == Call("none", None, NoValue, 0, [trace |-> <<>>, ret |-> "None"])

Root == 0
Loggers == DOMAIN loggers

(***************************************************************************)
(* The size of a state: the loggers created from the root, plus the        *)
(* attribute values, handler-list members and recorded events that differ  *)
(* from those of freshly constructed loggers, plus the ChangeThreshold     *)
(* objects, twice the open `with` blocks, and the history lists that a     *)
(* repeated _inherit has replaced.  The model explores the states of size  *)
(* at most MaxSize.                                                        *)
(***************************************************************************)
Members(seq) == {seq[i] : i \in 1..Len(seq)}

\* The attributes of the loggers 0..i that differ from a new logger's.
RECURSIVE AttrChanges(_, _)
AttrChanges(lg, i) ==
    IF i < 0 THEN 0
    ELSE (IF lg[i].enabled THEN 0 ELSE 1)
       + (IF lg[i].propagate THEN 1 ELSE 0)
       + (IF lg[i].threshold = DEFAULT_THRESHOLD THEN 0 ELSE 1)
       + (IF lg[i].format = DEFAULT_FORMAT THEN 0 ELSE 1)
       + (IF lg[i].colors THEN 0 ELSE 1)
       + AttrChanges(lg, i - 1)

\* The events in the histories 1..o.
RECURSIVE ListChanges(_, _)
ListChanges(ls, o) ==
    IF o = 0 THEN 0 ELSE Len(ls[o]) + ListChanges(ls, o - 1)

\* The handler lists 2..o that were built after the root's, their members,
\* and the members of the root's list that were added or are missing (a
\* list holds no handler twice).
RECURSIVE HandlerChanges(_, _)
HandlerChanges(hl, o) ==
    IF o = 0 THEN 0
    ELSE IF o = 1
    THEN IF \E i \in 1..Len(hl[1]) : hl[1][i] = StderrHandler
         THEN Len(hl[1]) - 1
         ELSE Len(hl[1]) + 1
    ELSE 1 + Len(hl[o]) + HandlerChanges(hl, o - 1)

Size(lg, ls, hl) ==
    LET n == Cardinality(DOMAIN lg)
    IN  (n - 1) + AttrChanges(lg, n - 1) + ListChanges(ls, Len(ls))
            + HandlerChanges(hl, Len(hl)) + (Len(ls) - n)

\* Only a state smaller than MaxSize is taken further.
Small == Size(loggers, lists, hlists) + Len(cts) + 2 * Len(stack) < MaxSize

Init ==
    /\ phase = "loading"
    /\ _allow_root = TRUE
    /\ loggers = <<>>
    /\ lists = <<>>
    /\ hlists = <<>>
    /\ uuids = 0
    /\ cts = <<>>
    /\ stack = <<>>
    /\ last = NoCall

\* The module body, lines 811-813: root = Logger(); _allow_root = False
LoadModule ==
    /\ phase = "loading"
    /\ LET st == Logger__init__(State, _allow_root, None)
       IN  Commit(st) /\ last' = Call("Logger", None, NoValue, 0, st)
    /\ _allow_root' = FALSE
    /\ phase' = "ready"
    /\ UNCHANGED <<cts, stack>>

\* Logger(None) called by a user of the library
NewRoot ==
    /\ phase = "ready"
    /\ LET st == Logger__init__(State, _allow_root, None)
       IN  Commit(st) /\ last' = Call("Logger", None, NoValue, 0, st)
    /\ UNCHANGED <<phase, _allow_root, cts, stack>>

\* logger.get_child()
GetChild(self) ==
    /\ phase = "ready"
    /\ LET st == get_child(State, _allow_root, self)
       IN  Commit(st) /\ last' = Call("get_child", self, NoValue, 0, st)
    /\ UNCHANGED <<phase, _allow_root, cts, stack>>

\* logger._inherit()  called on an existing logger
Inherit(self) ==
    /\ phase = "ready"
    /\ LET st == _inherit(State, self)
       IN  Commit(st) /\ last' = Call("_inherit", self, NoValue, 0, st)
    /\ UNCHANGED <<phase, _allow_root, cts, stack>>

\* logger.enabled = b
SetEnabled(self, b) ==
    /\ phase = "ready"
    /\ loggers[self].enabled # b
    /\ loggers' = [loggers EXCEPT ![self].enabled = b]
    /\ last' = NoCall
    /\ UNCHANGED <<phase, _allow_root, lists, hlists, uuids, cts, stack>>

\* logger.propagate = b
SetPropagate(self, b) ==
    /\ phase = "ready"
    /\ loggers[self].propagate # b
    /\ loggers' = [loggers EXCEPT ![self].propagate = b]
    /\ last' = NoCall
    /\ UNCHANGED <<phase, _allow_root, lists, hlists, uuids, cts, stack>>

\* logger.threshold = t
SetThreshold(self, t) ==
    /\ phase = "ready"
    /\ loggers[self].threshold # t
    /\ loggers' = [loggers EXCEPT ![self].threshold = t]
    /\ last' = NoCall
    /\ UNCHANGED <<phase, _allow_root, lists, hlists, uuids, cts, stack>>

\* logger.format = f
SetFormat(self, f) ==
    /\ phase = "ready"
    /\ loggers[self].format # f
    /\ loggers' = [loggers EXCEPT ![self].format = f]
    /\ last' = NoCall
    /\ UNCHANGED <<phase, _allow_root, lists, hlists, uuids, cts, stack>>

\* logger.indent = n
SetIndent(self, n) ==
    /\ phase = "ready"
    /\ loggers[self].indent # n
    /\ loggers' = [loggers EXCEPT ![self].indent = n]
    /\ last' = NoCall
    /\ UNCHANGED <<phase, _allow_root, lists, hlists, uuids, cts, stack>>

\* logger.colors = b
SetColors(self, b) ==
    /\ phase = "ready"
    /\ loggers[self].colors # b
    /\ loggers' = [loggers EXCEPT ![self].colors = b]
    /\ last' = NoCall
    /\ UNCHANGED <<phase, _allow_root, lists, hlists, uuids, cts, stack>>

\* logger.handlers = [...]  binds the attribute to a new list
AssignHandlers(self, hs) ==
    /\ phase = "ready"
    /\ hlists[loggers[self].handlers] # hs
    /\ hlists' = Append(hlists, hs)
    /\ loggers' = [loggers EXCEPT ![self].handlers = Len(hlists) + 1]
    /\ last' = NoCall
    /\ UNCHANGED <<phase, _allow_root, lists, uuids, cts, stack>>

\* logger.handlers.append(h)  changes the list the attribute is bound to
AttachHandler(self, h) ==
    /\ phase = "ready"
    /\ h \notin Members(hlists[loggers[self].handlers])
    /\ hlists' = [hlists EXCEPT ![loggers[self].handlers] = Append(@, h)]
    /\ last' = Call("handlers.append", self, NoValue, h, State)
    /\ UNCHANGED <<phase, _allow_root, loggers, lists, uuids, cts, stack>>

\* logger.handlers.remove(h), h in the list
RemoveHandler(self, h) ==
    /\ phase = "ready"
    /\ h \in Members(hlists[loggers[self].handlers])
    /\ hlists' = [hlists EXCEPT ![loggers[self].handlers] =
                     SelectSeq(@, LAMBDA x : x # h)]
    /\ last' = Call("handlers.remove", self, NoValue, h, State)
    /\ UNCHANGED <<phase, _allow_root, loggers, lists, uuids, cts, stack>>

\* logger._log(lvl, msg, traceback, frame_depth)
Log(self, lvl, msg, tb, fd) ==
    /\ phase = "ready"
    /\ LET st == _log(State, self, lvl, msg, tb, fd)
       IN  Commit(st) /\ last' = Call("_log", self, lvl, fd, st)
    /\ UNCHANGED <<phase, _allow_root, cts, stack>>

\* logger._log(lvl, msg, traceback, frame_depth) while the streams of the
\* handlers in failing raise on write
LogFailing(self, lvl, msg, tb, fd, failing) ==
    /\ phase = "ready"
    /\ LET st == _log([State EXCEPT !.failing = failing], self, lvl, msg, tb, fd)
       IN  Commit(st) /\ last' = Call("_log", self, lvl, fd, st)
    /\ UNCHANGED <<phase, _allow_root, cts, stack>>

\* StreamWriterHandler(stream, flush=.., use_colors=.., format_msg=..)
\*     .handle(self, event)
\* on a handler that is in no list, in the environment env; the write to
\* the stream raises if fails.  val keeps the arguments.
HandleCall(self, w, event, env, fails) ==
    /\ phase = "ready"
    /\ LET st == handle([State EXCEPT !.writers = (DirectHandler :> w),
                                      !.env = env,
                                      !.failing = IF fails THEN {DirectHandler}
                                                  ELSE {}],
                        DirectHandler, self, event)
       IN  /\ Commit(st)
           /\ last' = [Call("handle", self, event.level, event.frame_depth, st)
                          EXCEPT !.val = [w |-> w, event |-> event, env |-> env,
                                          fails |-> fails]]
    /\ UNCHANGED <<phase, _allow_root, cts, stack>>

\* logger._log(lvl, msg, traceback, frame_depth) in the environment env,
\* the handlers of Writers being StreamWriterHandlers.  val keeps the
\* arguments that arg and n do not.
LogRendered(self, lvl, msg, tb, fd, env) ==
    /\ phase = "ready"
    /\ LET st == _log([State EXCEPT !.writers = Writers, !.env = env],
                      self, lvl, msg, tb, fd)
       IN  /\ Commit(st)
           /\ last' = [Call("_log", self, lvl, fd, st)
                          EXCEPT !.val = [msg |-> msg, tb |-> tb, env |-> env]]
    /\ UNCHANGED <<phase, _allow_root, cts, stack>>

\* What the threads have done so far, in order, is kept in last.trace.
ThreadStep(e, t) == [e |-> e, thread |-> t]

Threaded(trace) ==
    [op |-> "thread", logger |-> Root, arg |-> NoValue, n |-> 0,
     trace |-> trace, ret |-> "None", val |-> NoValue]

\* The steps of thread t so far.
StepsOf(t) == SelectSeq(last.trace, LAMBDA x : x.thread = t)

\* Thread t comes to `with ChangeThreshold(root, level):`.  It builds the
\* object and runs line 790 of __enter__: self.old_level is the threshold
\* read now.
ThreadRead(t, level) ==
    /\ phase = "ready" /\ last.op \in {"Logger", "none", "thread"}
    /\ StepsOf(t) = <<>>
    /\ to_level(level, TRUE).ok
    /\ cts' = Append(cts, [ChangeThreshold__init__(Root, level)
                              EXCEPT !.old_level = loggers[Root].threshold])
    /\ stack' = Append(stack, [kind |-> "ChangeThreshold", id |-> Len(cts) + 1,
                                pre |-> loggers[Root].threshold, thread |-> t])
    /\ last' = Threaded(Append(IF last.op = "thread" THEN last.trace ELSE <<>>,
                               ThreadStep("read", t)))
    /\ UNCHANGED <<phase, _allow_root, loggers, lists, hlists, uuids>>

\* Thread t runs line 791 of __enter__: the threshold is stored.
ThreadWrite(t) ==
    /\ phase = "ready" /\ last.op = "thread"
    /\ Len(StepsOf(t)) = 1
    /\ \E k \in DOMAIN stack :
          /\ stack[k].thread = t
          /\ Commit(ChangeThreshold__enter__(State, cts[stack[k].id]))
    /\ last' = Threaded(Append(last.trace, ThreadStep("write", t)))
    /\ UNCHANGED <<phase, _allow_root, cts, stack>>

\* Thread t leaves its block: __exit__ stores self.old_level.
ThreadExit(t) ==
    /\ phase = "ready" /\ last.op = "thread"
    /\ Len(StepsOf(t)) = 2
    /\ \E k \in DOMAIN stack :
          /\ stack[k].thread = t
          /\ Commit(ChangeThreshold__exit__(State, cts[stack[k].id]))
    /\ stack' = SelectSeq(stack, LAMBDA b : b.thread # t)
    /\ last' = Threaded(Append(last.trace, ThreadStep("exit", t)))
    /\ UNCHANGED <<phase, _allow_root, cts>>

\* logger._log(lvl, msg, traceback, frame_depth) is called: the call is
\* pending at the logger, with nothing done yet.  val keeps the arguments
\* of the call.
LogBegin(self, lvl, msg, tb, fd) ==
    /\ phase = "ready"
    /\ last' = [op |-> "_log frame", logger |-> self, arg |-> lvl, n |-> fd,
                trace |-> <<>>, ret |-> "pending",
                val |-> [logger |-> self, msg |-> msg, traceback |-> tb,
                         frame_depth |-> fd]]
    /\ UNCHANGED <<phase, _allow_root, loggers, lists, hlists, uuids, cts, stack>>

\* The pending _log call runs one frame: it ends, or it is pending at the
\* parent.
LogFrame ==
    /\ phase = "ready" /\ last.ret = "pending"
    /\ LET st == _log_frame([State EXCEPT !.trace = last.trace], last.logger,
                            last.arg, last.val.msg, last.val.traceback, last.n)
       IN  /\ Commit(st)
           /\ last' = IF st.ret = "_log"
                      THEN [last EXCEPT !.logger = st.next, !.n = st.depth,
                                        !.trace = st.trace]
                      ELSE [Call("_log", last.val.logger, last.arg,
                                 last.val.frame_depth, st)
                               EXCEPT !.val = last.val]
    /\ UNCHANGED <<phase, _allow_root, cts, stack>>

\* logger.debug(msg, traceback), logger.info(msg, traceback), ...: op is
\* the name of the method, val keeps its arguments.
MethodCall(self, name, msg, tb) ==
    /\ phase = "ready"
    /\ LET st == CASE name = "debug" -> Logger_debug(State, self, msg, tb)
                   [] name = "info" -> Logger_info(State, self, msg, tb)
                   [] name = "warning" -> Logger_warning(State, self, msg, tb)
                   [] name = "error" -> Logger_error(State, self, msg, tb)
                   [] name = "critical" -> Logger_critical(State, self, msg, tb)
       IN  /\ Commit(st)
           /\ last' = [Call(name, self, NoValue, 0, st)
                          EXCEPT !.val = [msg |-> msg, tb |-> tb]]
    /\ UNCHANGED <<phase, _allow_root, cts, stack>>

\* to_level(lvl, int_ok): val is the value returned, or the value the
\* exception names; ret is the type of the value or of the exception.
ToLevel(lvl, int_ok) ==
    /\ LET r == to_level(lvl, int_ok)
       IN  last' = [Call("to_level", None, lvl, IF int_ok THEN 1 ELSE 0,
                         [trace |-> <<>>, ret |-> IF r.ok THEN r.val.k ELSE r.exc])
                       EXCEPT !.val = r.val]
    /\ UNCHANGED <<phase, _allow_root, loggers, lists, hlists, uuids, cts, stack>>

\* logger.is_enabled_for(lvl)
IsEnabledFor(self, lvl) ==
    /\ phase = "ready"
    /\ LET st == is_enabled_for(State, self, lvl)
       IN  Commit(st) /\ last' = Call("is_enabled_for", self, lvl, 0, st)
    /\ UNCHANGED <<phase, _allow_root, cts, stack>>

\* with logger.ctxmgr:  entered; the value returned is the indent read
\* after the increment (line 749)
IndentEnter(self) ==
    /\ phase = "ready" /\ Len(stack) < MaxScopes
    /\ LET st == IndentLogger__enter__(State, self)
       IN  /\ Commit(st)
           /\ last' = Call("IndentLogger.__enter__", self,
                           In(st.loggers[self].indent), 0, st)
    /\ stack' = Append(stack, [kind |-> "IndentLogger", id |-> self, pre |-> NoValue])
    /\ UNCHANGED <<phase, _allow_root, cts>>

\* ChangeThreshold(logger, level)
NewChangeThreshold(self, level) ==
    /\ phase = "ready" /\ Len(cts) < MaxCT
    /\ IF to_level(level, TRUE).ok
       THEN cts' = Append(cts, ChangeThreshold__init__(self, level))
       ELSE cts' = cts
    /\ last' = Call("ChangeThreshold", self, level, 0,
                    [State EXCEPT !.ret = IF to_level(level, TRUE).ok
                                          THEN "None" ELSE "ValueError"])
    /\ UNCHANGED <<phase, _allow_root, loggers, lists, hlists, uuids, stack>>

\* with c:  entered.  The block remembers, as pre, the threshold the
\* logger had when the block was entered.
ThresholdEnter(i) ==
    /\ phase = "ready" /\ Len(stack) < MaxScopes
    /\ LET c == [cts[i] EXCEPT !.old_level = loggers[cts[i].logger].threshold]
           st == ChangeThreshold__enter__(State, c)
       IN  /\ Commit(st)
           /\ cts' = [cts EXCEPT ![i] = c]
           /\ last' = Call("ChangeThreshold.__enter__", c.logger, c.old_level, i, st)
    /\ stack' = Append(stack, [kind |-> "ChangeThreshold", id |-> i,
                                pre |-> loggers[cts[i].logger].threshold])
    /\ UNCHANGED <<phase, _allow_root>>

\* The innermost open `with` block is left: typ is None if its body ended
\* normally and the type of the exception if it raised.  Neither __exit__
\* reads typ, and both return None.
ScopeExit(typ) ==
    /\ phase = "ready" /\ stack # <<>>
    /\ LET top == stack[Len(stack)]
           st == IF top.kind = "IndentLogger"
                 THEN IndentLogger__exit__(State, top.id)
                 ELSE ChangeThreshold__exit__(State, cts[top.id])
       IN  /\ Commit(st)
           /\ last' = Call(top.kind \o ".__exit__",
                           IF top.kind = "IndentLogger" THEN top.id
                           ELSE cts[top.id].logger,
                           St(typ), top.id, st)
    /\ stack' = SubSeq(stack, 1, Len(stack) - 1)
    /\ UNCHANGED <<phase, _allow_root, cts>>

(***************************************************************************)
(* The inputs the model draws.                                             *)
(***************************************************************************)
ExitTypes == {"None", "Exception"}
LogLevels == {Lv(debug), Lv(critical), In(35)}
Thresholds == {Lv(debug)}
HandlerLists == {<<2>>}
FrameDepths == {3}
Messages == {St("m")}

(***************************************************************************)
(* Logging in a tree of loggers.                                           *)
(***************************************************************************)
NextLog ==
    \/ Small /\ LoadModule
    \/ Small /\ NewRoot
    \/ Small /\ \E self \in Loggers : GetChild(self)
    \/ Small /\ \E self \in Loggers, b \in BOOLEAN : SetEnabled(self, b)
    \/ Small /\ \E self \in Loggers, b \in BOOLEAN : SetPropagate(self, b)
    \/ Small /\ \E self \in Loggers, t \in Thresholds : SetThreshold(self, t)
    \/ Small /\ \E self \in Loggers, hs \in HandlerLists : AssignHandlers(self, hs)
    \/ Small /\ \E self \in Loggers, lvl \in LogLevels, msg \in Messages,
                   fd \in FrameDepths : Log(self, lvl, msg, FALSE, fd)

SpecLog == Init /\ [][NextLog]_vars

(***************************************************************************)
(* is_enabled_for on the root, for every kind of level and threshold.      *)
(***************************************************************************)
\* Levels: every member, alias names included; ints and decimal strings
\* that are and are not the value of a member; names in another case; a
\* string that is neither.
EnabledLevels ==
    {Lv(v) : v \in LevelValues} \cup {In(v) : v \in LevelValues \cup {35, 5}}
        \cup {St(n) : n \in LevelNames \cup {"30", "35", "WARNING", "nolevel"}}

\* Thresholds: every member, raw ints, and a level name.
EnabledThresholds ==
    {Lv(v) : v \in LevelValues} \cup {In(35), In(5), In(30), St("fatal")}

NextEnabled ==
    \/ LoadModule
    \/ \E t \in EnabledThresholds : SetThreshold(Root, t)
    \/ \E lvl \in EnabledLevels : IsEnabledFor(Root, lvl)

SpecEnabled == Init /\ [][NextEnabled]_vars

(***************************************************************************)
(* get_child on loggers in every state.                                    *)
(***************************************************************************)
Formats == {"{msg}"}
InheritLevels == {Lv(critical)}

NextInherit ==
    \/ Small /\ LoadModule
    \/ Small /\ \E self \in Loggers : GetChild(self)
    \/ Small /\ \E self \in Loggers, b \in BOOLEAN : SetEnabled(self, b)
    \/ Small /\ \E self \in Loggers, b \in BOOLEAN : SetPropagate(self, b)
    \/ Small /\ \E self \in Loggers, t \in Thresholds : SetThreshold(self, t)
    \/ Small /\ \E self \in Loggers, f \in Formats : SetFormat(self, f)
    \/ Small /\ \E self \in Loggers, hs \in HandlerLists : AssignHandlers(self, hs)
    \/ Small /\ \E self \in Loggers : IndentEnter(self)
    \/ \E typ \in ExitTypes : ScopeExit(typ)
    \/ Small /\ \E self \in Loggers, lvl \in InheritLevels, msg \in Messages,
                   fd \in FrameDepths : Log(self, lvl, msg, FALSE, fd)

SpecInherit == Init /\ [][NextInherit]_vars

(***************************************************************************)
(* Handler lists of parents and children.                                  *)
(***************************************************************************)
NextHandlers ==
    \/ Small /\ LoadModule
    \/ Small /\ \E self \in Loggers : GetChild(self)
    \/ Small /\ \E self \in Loggers, hs \in HandlerLists : AssignHandlers(self, hs)
    \/ Small /\ \E self \in Loggers, h \in HandlerIds : AttachHandler(self, h)
    \/ Small /\ \E self \in Loggers, h \in HandlerIds : RemoveHandler(self, h)
    \/ Small /\ \E self \in Loggers, lvl \in InheritLevels, msg \in Messages,
                   fd \in FrameDepths : Log(self, lvl, msg, FALSE, fd)

SpecHandlers == Init /\ [][NextHandlers]_vars

(***************************************************************************)
(* Thresholds of parents, children and siblings.                           *)
(***************************************************************************)
AssignedThresholds == {Lv(debug), In(35)}
ScopeThresholds == {Lv(error), St("info"), In(35), St("nolevel")}

NextThreshold ==
    \/ Small /\ LoadModule
    \/ Small /\ \E self \in Loggers : GetChild(self)
    \/ Small /\ \E self \in Loggers, t \in AssignedThresholds : SetThreshold(self, t)
    \/ Small /\ \E self \in Loggers, lvl \in ScopeThresholds :
                   NewChangeThreshold(self, lvl)
    \/ Small /\ \E i \in DOMAIN cts : ThresholdEnter(i)
    \/ \E typ \in ExitTypes : ScopeExit(typ)
    \/ Small /\ \E self \in Loggers, lvl \in InheritLevels : IsEnabledFor(self, lvl)

SpecThreshold == Init /\ [][NextThreshold]_vars

(***************************************************************************)
(* Indentation scopes, nested, on loggers whose indent was set by hand     *)
(* while none of their scopes was open.                                    *)
(***************************************************************************)
Indents == {0, 3}

\* The open indentation scopes of logger l.
OpenScopes(l) ==
    Cardinality({k \in DOMAIN stack :
                    stack[k].kind = "IndentLogger" /\ stack[k].id = l})

NextIndent ==
    \/ Small /\ LoadModule
    \/ Small /\ \E self \in Loggers : GetChild(self)
    \/ Small /\ \E self \in Loggers, n \in Indents :
                   OpenScopes(self) = 0 /\ SetIndent(self, n)
    \/ Small /\ \E self \in Loggers : IndentEnter(self)
    \/ \E typ \in ExitTypes : ScopeExit(typ)

SpecIndent == Init /\ [][NextIndent]_vars

(***************************************************************************)
(* Dispatch to handler lists of several members, some of whose streams     *)
(* fail.                                                                   *)
(***************************************************************************)
FailingSets == (SUBSET HandlerIds) \ {{}}

NextDispatch ==
    \/ Small /\ LoadModule
    \/ Small /\ \E self \in Loggers : GetChild(self)
    \/ Small /\ \E self \in Loggers, b \in BOOLEAN : SetPropagate(self, b)
    \/ Small /\ \E self \in Loggers, h \in HandlerIds : AttachHandler(self, h)
    \/ Small /\ \E self \in Loggers, h \in HandlerIds : RemoveHandler(self, h)
    \/ Small /\ \E self \in Loggers, lvl \in InheritLevels, msg \in Messages,
                   fd \in FrameDepths : Log(self, lvl, msg, FALSE, fd)
    \/ Small /\ \E self \in Loggers, lvl \in InheritLevels, msg \in Messages,
                   fd \in FrameDepths, failing \in FailingSets :
                   LogFailing(self, lvl, msg, FALSE, fd, failing)

SpecDispatch == Init /\ [][NextDispatch]_vars

(***************************************************************************)
(* Identity: loggers created, configured and made to inherit again.        *)
(***************************************************************************)
NextIdentity ==
    \/ Small /\ LoadModule
    \/ Small /\ NewRoot
    \/ Small /\ \E self \in Loggers : GetChild(self)
    \/ Small /\ \E self \in Loggers : Inherit(self)
    \/ Small /\ \E self \in Loggers, b \in BOOLEAN : SetEnabled(self, b)
    \/ Small /\ \E self \in Loggers, t \in Thresholds : SetThreshold(self, t)
    \/ Small /\ \E self \in Loggers, f \in Formats : SetFormat(self, f)

SpecIdentity == Init /\ [][NextIdentity]_vars

(***************************************************************************)
(* StreamWriterHandler.handle called on the root with every colour         *)
(* setting, format and indentation, by handlers of every configuration.    *)
(***************************************************************************)
WriterConfigs ==
    {StreamWriterHandler__init__(f, c, m) : f \in BOOLEAN, c \in BOOLEAN, m \in BOOLEAN}

\* Whether an exception is being handled, and whether the stack is as
\* deep as the event's frame_depth.
Environments ==
    {[exc |-> FALSE, deep |-> TRUE], [exc |-> TRUE, deep |-> TRUE],
     [exc |-> FALSE, deep |-> FALSE]}

StreamFormats == {"{msg}", "{lvl}{nope}"}

\* The events handed to handle: of a member and of a raw int, with and
\* without the traceback flag.
HandledEvents ==
    {LogEvent("m", l, 0, 1, tb) : l \in {Lv(warning), In(35)}, tb \in BOOLEAN}

NextHandle ==
    \/ Small /\ LoadModule
    \/ Small /\ \E self \in Loggers, b \in BOOLEAN : SetColors(self, b)
    \/ Small /\ \E self \in Loggers, f \in StreamFormats : SetFormat(self, f)
    \/ Small /\ \E self \in Loggers, n \in Indents : SetIndent(self, n)
    \/ Small /\ \E self \in Loggers, w \in WriterConfigs, event \in HandledEvents,
                   env \in Environments, fails \in BOOLEAN :
                   HandleCall(self, w, event, env, fails)

SpecHandle == Init /\ [][NextHandle]_vars

(***************************************************************************)
(* Logging through handler lists of StreamWriterHandlers and others, with  *)
(* and without the traceback flag, while an exception is and is not being  *)
(* handled.                                                                *)
(***************************************************************************)
NextRender ==
    \/ Small /\ LoadModule
    \/ Small /\ \E self \in Loggers : GetChild(self)
    \/ Small /\ \E self \in Loggers, hs \in HandlerLists : AssignHandlers(self, hs)
    \/ Small /\ \E self \in Loggers, h \in HandlerIds : AttachHandler(self, h)
    \/ Small /\ \E self \in Loggers, lvl \in InheritLevels, msg \in Messages,
                   tb \in BOOLEAN, fd \in FrameDepths, env \in Environments :
                   LogRendered(self, lvl, msg, tb, fd, env)

SpecRender == Init /\ [][NextRender]_vars

(***************************************************************************)
(* Histories under logging, child creation and scopes of both kinds.       *)
(***************************************************************************)
HistoryEnvironments == {[exc |-> FALSE, deep |-> TRUE]}

NextHistory ==
    \/ Small /\ LoadModule
    \/ Small /\ \E self \in Loggers : GetChild(self)
    \/ Small /\ \E self \in Loggers, b \in BOOLEAN : SetPropagate(self, b)
    \/ Small /\ \E self \in Loggers : IndentEnter(self)
    \/ Small /\ \E self \in Loggers, lvl \in InheritLevels :
                   NewChangeThreshold(self, lvl)
    \/ Small /\ \E i \in DOMAIN cts : ThresholdEnter(i)
    \/ \E typ \in ExitTypes : ScopeExit(typ)
    \/ Small /\ \E self \in Loggers, lvl \in InheritLevels, msg \in Messages,
                   fd \in FrameDepths, env \in HistoryEnvironments :
                   LogRendered(self, lvl, msg, FALSE, fd, env)

SpecHistory == Init /\ [][NextHistory]_vars

(***************************************************************************)
(* The methods of the five levels on a root of every threshold, indented   *)
(* or not, with messages that are a str and that are not, while the        *)
(* history has fewer than MaxHistory events.                               *)
(***************************************************************************)
MethodNames == {"debug", "info", "warning", "error", "critical"}
MethodThresholds == {Lv(v) : v \in LevelValues} \cup {In(35)}
MethodMessages == {St("m"), In(5)}

NextMethods ==
    \/ Small /\ LoadModule
    \/ Small /\ \E self \in Loggers, b \in BOOLEAN : SetEnabled(self, b)
    \/ Small /\ \E self \in Loggers, b \in BOOLEAN : SetPropagate(self, b)
    \/ Small /\ \E self \in Loggers, t \in MethodThresholds : SetThreshold(self, t)
    \/ Small /\ \E self \in Loggers : IndentEnter(self)
    \/ \E typ \in ExitTypes : ScopeExit(typ)
    \/ Small /\ \E self \in Loggers, name \in MethodNames, msg \in MethodMessages :
                   /\ Len(lists[loggers[self].list]) < MaxHistory
                   /\ MethodCall(self, name, msg, FALSE)

SpecMethods == Init /\ [][NextMethods]_vars

(***************************************************************************)
(* _log calls frame by frame, on chains of loggers (a call only ever sees  *)
(* the ancestors of its logger) some of which have been disabled and made  *)
(* to propagate.  The program has one thread: while a call is pending      *)
(* nothing else happens, and a pending call goes on running.               *)
(***************************************************************************)
\* The logger created last.
Newest == Cardinality(Loggers) - 1

Idle == last.ret # "pending"

StepLevels == {Lv(debug), Lv(critical)}

NextSteps ==
    \/ Small /\ Idle /\ LoadModule
    \/ Small /\ Idle /\ GetChild(Newest)
    \/ Small /\ Idle /\ \E self \in Loggers : SetEnabled(self, FALSE)
    \/ Small /\ Idle /\ \E self \in Loggers : SetPropagate(self, TRUE)
    \/ Small /\ Idle /\ \E self \in Loggers, lvl \in StepLevels, msg \in Messages,
                   fd \in FrameDepths : LogBegin(self, lvl, msg, FALSE, fd)
    \/ LogFrame

SpecSteps == Init /\ [][NextSteps]_vars /\ WF_vars(LogFrame)

(***************************************************************************)
(* Two threads, each running one `with ChangeThreshold(root, level):`      *)
(* block, their steps interleaved in every way.  The threshold of the root *)
(* is set before the threads start; the levels of the blocks are none of   *)
(* the values it is set to.                                                *)
(***************************************************************************)
Threads == {"A", "B"}
ThreadLevels == {Lv(error), St("critical")}

NextThreads ==
    \/ LoadModule
    \/ \E t \in AssignedThresholds : cts = <<>> /\ SetThreshold(Root, t)
    \/ \E t \in Threads, lvl \in ThreadLevels : ThreadRead(t, lvl)
    \/ \E t \in Threads : ThreadWrite(t)
    \/ \E t \in Threads : ThreadExit(t)

SpecThreads == Init /\ [][NextThreads]_vars

(***************************************************************************)
(* to_level on every kind of argument.                                     *)
(***************************************************************************)
\* Ints that are and are not the value of a level.
LevelInts == LevelValues \cup {35, 5, 0, 15, 25, 45}

\* Every member; ints and their decimal strings; the names, aliases
\* included, and their variants in another case; a name of a class
\* attribute; strings that are neither; an object that is no number.
Levelables ==
    {Lv(v) : v \in LevelValues} \cup {In(v) : v \in LevelInts}
        \cup {St(s) : s \in DecimalStrings \cup LevelNames \cup CaseVariants
                              \cup ClassAttributes \cup {"nolevel", "3e1"}}
        \cup {Ot("None")}

NextToLevel ==
    \E lvl \in Levelables, int_ok \in BOOLEAN : ToLevel(lvl, int_ok)

SpecToLevel == Init /\ [][NextToLevel]_vars

(***************************************************************************)
(* Notions the properties are stated with.                                 *)
(***************************************************************************)
\* The integer value of a Level, of an int, of a level name or of a
\* decimal string.
Value(x) ==
    IF x.k \in {"Level", "int"} THEN x.v
    ELSE IF x.s \in LevelNames THEN LevelByName(x.s).v
    ELSE ParseDecimal(x.s)

\* The handler invocations among the effects of a call.
Handles(trace) == SelectSeq(trace, LAMBDA e : e.e = "handle")

\* The _log calls among the effects of a call, the first being the
\* caller's own.
LogCalls(trace) == SelectSeq(trace, LAMBDA e : e.e = "_log")

Warnings(trace, w) == SelectSeq(trace, LAMBDA e : e.e = w)

\* The step is a call of l._log: last' describes it, the unprimed
\* variables are the state it was made in.
LogStep(l) == last'.op = "_log" /\ last'.logger = l /\ l \in Loggers

\* The histories that the step leaves as they were.
HistoryUnchanged(l) == lists'[loggers'[l].list] = lists[loggers[l].list]

\* The step appends exactly one event to l's history.
HistoryAppended(l) ==
    /\ Len(lists'[loggers'[l].list]) = Len(lists[loggers[l].list]) + 1
    /\ SubSeq(lists'[loggers'[l].list], 1, Len(lists[loggers[l].list]))
          = lists[loggers[l].list]

NewestEvent(l) == lists[loggers[l].list][Len(lists[loggers[l].list])]

\* The ancestors of l, l included, from l upwards until a logger that does
\* not propagate (or the root).
RECURSIVE PropagationPath(_)
PropagationPath(l) ==
    IF loggers[l].propagate /\ loggers[l].higher # None
    THEN <<l>> \o PropagationPath(loggers[l].higher)
    ELSE <<l>>

\* The logger at which a call of l._log ends.
Recorder(l) == PropagationPath(l)[Len(PropagationPath(l))]

(***************************************************************************)
(* C1  A disabled logger short-circuits: a _log call on a logger whose     *)
(* enabled is false returns None at once, whatever its propagate flag and  *)
(* the level are: no history changes, no handler is invoked, no warning is *)
(* emitted and the parent's _log is not called.                            *)
(***************************************************************************)
C1_DisabledShortCircuit ==
    [][\A l \in Loggers :
          (LogStep(l) /\ ~loggers[l].enabled) =>
              /\ lists' = lists
              /\ loggers' = loggers
              /\ last'.ret = "None"
              /\ Len(last'.trace) = 1
              /\ last'.trace[1].e = "_log" /\ last'.trace[1].logger = l]_vars

\* A disabled, propagating child has logged at a level that the enabled,
\* non-propagating parent's threshold admits.
C1_Witness ==
    /\ last.op = "_log"
    /\ ~loggers[last.logger].enabled
    /\ loggers[last.logger].propagate
    /\ loggers[last.logger].higher # None
    /\ loggers[loggers[last.logger].higher].enabled
    /\ ~loggers[loggers[last.logger].higher].propagate
    /\ Value(last.arg) >= Value(loggers[last.logger].threshold)
    /\ Value(last.arg) >= Value(loggers[loggers[last.logger].higher].threshold)

(***************************************************************************)
(* C2  (as claimed)  An enabled child with propagate = true that logs at   *)
(* a level its own threshold admits appends the event to its own history   *)
(* and also forwards it to the parent's _log.                              *)
(***************************************************************************)
C2_RecordsAndPropagates ==
    [][\A l \in Loggers :
          (/\ LogStep(l)
           /\ loggers[l].enabled /\ loggers[l].propagate
           /\ loggers[l].higher # None
           /\ Value(last'.arg) >= Value(loggers[l].threshold)) =>
              /\ HistoryAppended(l)
              /\ Len(LogCalls(last'.trace)) >= 2
              /\ LogCalls(last'.trace)[2].logger = loggers[l].higher]_vars

(***************************************************************************)
(* C2  (amended)  An enabled child with propagate = true that logs         *)
(* forwards the call to its parent's _log and leaves its own history as it *)
(* was, also when its own threshold admits the level: at one logger,       *)
(* recording and propagation exclude each other.                           *)
(***************************************************************************)
C2_PropagatesWithoutRecording ==
    [][\A l \in Loggers :
          (/\ LogStep(l)
           /\ loggers[l].enabled /\ loggers[l].propagate
           /\ loggers[l].higher # None
           /\ Value(last'.arg) >= Value(loggers[l].threshold)) =>
              /\ HistoryUnchanged(l)
              /\ Len(LogCalls(last'.trace)) >= 2
              /\ LogCalls(last'.trace)[2].logger = loggers[l].higher]_vars

\* A propagating child whose own threshold admits the level has logged,
\* and the parent has recorded the event.
C2_Witness ==
    /\ last.op = "_log"
    /\ loggers[last.logger].enabled
    /\ loggers[last.logger].propagate
    /\ loggers[last.logger].higher # None
    /\ Value(last.arg) >= Value(loggers[last.logger].threshold)
    /\ last.ret = "LogEvent"
    /\ lists[loggers[last.logger].list] = <<>>
    /\ lists[loggers[loggers[last.logger].higher].list] # <<>>

(***************************************************************************)
(* C3  When an enabled non-root logger with propagate = true logs, its own *)
(* history is unchanged and it dispatches to no handler.  The call ends at *)
(* the nearest ancestor whose propagate is false; that ancestor appends    *)
(* the event, and dispatches it to its own handler list, exactly if it and *)
(* every logger on the way are enabled and its threshold admits the level. *)
(* No other history changes, so the call appends at most one event.        *)
(***************************************************************************)
C3_RecordedByNearestNonPropagating ==
    [][\A l \in Loggers :
          (/\ LogStep(l)
           /\ loggers[l].enabled /\ loggers[l].propagate
           /\ loggers[l].higher # None) =>
              LET path == PropagationPath(l)
                  r == Recorder(l)
                  records ==
                      /\ ~loggers[r].propagate
                      /\ \A i \in 1..Len(path) : loggers[path[i]].enabled
                      /\ Value(last'.arg) >= Value(loggers[r].threshold)
                  hs == Handles(last'.trace)
              IN  /\ HistoryUnchanged(l)
                  /\ \A i \in 1..Len(hs) : hs[i].logger # l
                  /\ \A m \in Loggers : m # r => HistoryUnchanged(m)
                  /\ IF records
                     THEN /\ HistoryAppended(r)
                          /\ [i \in 1..Len(hs) |-> hs[i].handler]
                                = hlists[loggers[r].handlers]
                          /\ \A i \in 1..Len(hs) : hs[i].logger = r
                     ELSE HistoryUnchanged(r) /\ hs = <<>>]_vars

\* A grandchild has logged through a propagating parent, and the root has
\* recorded the event.
C3_Witness ==
    /\ last.op = "_log"
    /\ loggers[last.logger].enabled
    /\ loggers[last.logger].propagate
    /\ Len(PropagationPath(last.logger)) = 3
    /\ last.ret = "LogEvent"
    /\ Handles(last.trace) # <<>>
    /\ lists[loggers[Recorder(last.logger)].list] # <<>>

(***************************************************************************)
(* C4  An event is recorded only if its level is >= the threshold of the   *)
(* logger that records it: whenever a _log call appends to the history of  *)
(* a logger, that logger is enabled and the integer value of the level is  *)
(* >= the integer value of that logger's threshold when the call is made,  *)
(* whichever logger the call was made on.  A child with the default        *)
(* threshold WARNING that logs at DEBUG records nothing.                   *)
(***************************************************************************)
C4_RecordedOnlyAtOrAboveThreshold ==
    [][\A l \in Loggers :
          LogStep(l) =>
              /\ \A r \in Loggers :
                    ~HistoryUnchanged(r) =>
                        /\ loggers[r].enabled
                        /\ Value(last'.arg) >= Value(loggers[r].threshold)
                        /\ HistoryAppended(r)
                        /\ Value(NewestEvent(r)'.level) = Value(last'.arg)
              /\ (/\ loggers[l].higher # None
                  /\ ~loggers[l].propagate
                  /\ loggers[l].threshold = DEFAULT_THRESHOLD
                  /\ Value(last'.arg) = debug) => lists' = lists]_vars

\* A child whose own threshold (DEBUG) admits the level has logged at
\* DEBUG by propagation, and the logger the call ended at (threshold
\* WARNING) has recorded nothing.
C4_Witness ==
    /\ last.op = "_log"
    /\ loggers[last.logger].propagate
    /\ loggers[last.logger].higher # None
    /\ loggers[last.logger].enabled
    /\ loggers[last.logger].threshold = Lv(debug)
    /\ loggers[Recorder(last.logger)].enabled
    /\ loggers[Recorder(last.logger)].threshold = DEFAULT_THRESHOLD
    /\ Value(last.arg) = debug
    /\ last.ret = "None"

(***************************************************************************)
(* C6  The root propagation guard: a _log call on the enabled root whose   *)
(* propagate is true emits the "Root logger should not propagate" warning  *)
(* and returns None: nothing is raised, no history changes, no handler is  *)
(* invoked and no other logger's _log is called.                           *)
(***************************************************************************)
C6_RootPropagationGuard ==
    [][\A l \in Loggers :
          (/\ LogStep(l)
           /\ loggers[l].higher = None
           /\ loggers[l].enabled /\ loggers[l].propagate) =>
              /\ last'.ret = "None"
              /\ lists' = lists
              /\ loggers' = loggers
              /\ Len(last'.trace) = 2
              /\ last'.trace[1].e = "_log" /\ last'.trace[1].logger = l
              /\ last'.trace[2].e = "warn-root-propagate"]_vars

\* The enabled root, with propagate = true, has logged at a level that
\* its threshold admits.
C6_Witness ==
    /\ last.op = "_log"
    /\ last.logger = Root
    /\ loggers[Root].enabled /\ loggers[Root].propagate
    /\ Value(last.arg) >= Value(loggers[Root].threshold)
    /\ Warnings(last.trace, "warn-root-propagate") # <<>>

(***************************************************************************)
(* C7  The root is a singleton.  Once the module is loaded the guard flag  *)
(* is off and exactly one logger has no parent; every later Logger(None)   *)
(* raises the "root logger already exists" ValueError, creates no logger   *)
(* and changes no logger.                                                  *)
(***************************************************************************)
C7_RootSingleton ==
    [][/\ phase' = "ready" =>
             /\ ~_allow_root'
             /\ Cardinality({l \in DOMAIN loggers' : loggers'[l].higher = None}) = 1
       /\ (phase = "ready" /\ last'.op = "Logger") =>
             /\ last'.ret = "ValueError"
             /\ loggers' = loggers
             /\ lists' = lists /\ hlists' = hlists /\ uuids' = uuids]_vars

\* Logger(None) was called in a tree that has the root and a child.
C7_Witness ==
    /\ phase = "ready"
    /\ last.op = "Logger"
    /\ last.ret = "ValueError"
    /\ Cardinality(Loggers) >= 2

(***************************************************************************)
(* C5  Threshold gating.  For a level given as a Level, as the integer     *)
(* value of a level or as the name of a level, and a threshold that is a   *)
(* Level or a raw integer, is_enabled_for returns True exactly if the      *)
(* integer value of the level is >= the integer value of the threshold,    *)
(* which the call leaves as it was.  With the threshold WARNING, DEBUG and *)
(* INFO are disabled and WARNING, ERROR and CRITICAL are enabled.          *)
(***************************************************************************)
KnownLevel(x) ==
    \/ x.k = "Level"
    \/ x.k = "int" /\ x.v \in LevelValues
    \/ x.k = "str" /\ x.s \in LevelNames

C5_ThresholdGating ==
    [][\A l \in Loggers :
          (/\ last'.op = "is_enabled_for" /\ last'.logger = l
           /\ KnownLevel(last'.arg)
           /\ loggers[l].threshold.k \in {"Level", "int"}) =>
              /\ last'.ret \in {"True", "False"}
              /\ last'.ret = "True" <=>
                    Value(last'.arg) >= loggers[l].threshold.v
              /\ loggers'[l].threshold.v = loggers[l].threshold.v
              /\ loggers[l].threshold = Lv(warning) =>
                    (last'.ret = "False" <=> Value(last'.arg) \in {debug, info})]_vars

\* is_enabled_for was asked for the level at the boundary, given by its
\* alias name warn, while the threshold was WARNING.
C5_Witness ==
    /\ last.op = "is_enabled_for"
    /\ last.arg = St("warn")
    /\ loggers[last.logger].threshold = Lv(warning)
    /\ last.ret = "True"

(***************************************************************************)
(* C8  Inheritance defaults.  Whatever the state of the parent, the child  *)
(* that get_child creates has propagate false, indentation 0, enabled      *)
(* true, an empty history that is the history of no other logger, the      *)
(* creating logger as its parent, and the threshold, the format and the    *)
(* handlers of the parent at that time; no step changes the parent of a    *)
(* logger.                                                                 *)
(***************************************************************************)
C8_InheritanceDefaults ==
    [][/\ \A l \in Loggers : loggers'[l].higher = loggers[l].higher
       /\ \A p \in Loggers :
             (last'.op = "get_child" /\ last'.logger = p) =>
                LET c == Cardinality(Loggers)
                IN  /\ last'.ret = "None"
                    /\ DOMAIN loggers' = Loggers \cup {c}
                    /\ loggers'[c].higher = p
                    /\ loggers'[c].propagate = FALSE
                    /\ loggers'[c].indent = 0
                    /\ loggers'[c].enabled = TRUE
                    /\ lists'[loggers'[c].list] = <<>>
                    /\ \A l \in Loggers : loggers'[l].list # loggers'[c].list
                    /\ loggers'[c].threshold = loggers[p].threshold
                    /\ loggers'[c].format = loggers[p].format
                    /\ hlists'[loggers'[c].handlers] = hlists[loggers[p].handlers]]_vars

\* get_child was called on a propagating, indented logger with a history,
\* and returned the newest logger.
C8_Witness ==
    /\ last.op = "get_child"
    /\ LET p == last.logger
           c == Cardinality(Loggers) - 1
       IN  /\ loggers[c].higher = p
           /\ loggers[p].propagate
           /\ loggers[p].indent > 0
           /\ lists[loggers[p].list] # <<>>
           /\ ~loggers[c].propagate /\ loggers[c].enabled /\ loggers[c].indent = 0

(***************************************************************************)
(* C9  Inherited handlers are an independent copy.  Appending a handler to *)
(* the handlers of a logger, or removing one from them, changes the        *)
(* handlers neither of its parent nor of its children.                     *)
(***************************************************************************)
DispatchList(l) == hlists[loggers[l].handlers]

C9_InheritedHandlersIndependent ==
    [][\A c \in Loggers :
          (last'.op \in {"handlers.append", "handlers.remove"} /\ last'.logger = c) =>
             \A l \in Loggers :
                (loggers[c].higher = l \/ loggers[l].higher = c) =>
                   DispatchList(l)' = DispatchList(l)]_vars

(***************************************************************************)
(* C10  Inherited threshold is a one-time copy.  The threshold of a logger *)
(* changes only in an assignment to the threshold of that logger, on entry *)
(* to and exit from a ChangeThreshold scope of that logger, and when       *)
(* is_enabled_for of that logger converts it to the Level of the same      *)
(* value: a new threshold of the parent leaves the children's thresholds   *)
(* unchanged, and a new threshold of a child leaves the parent's and the   *)
(* siblings' unchanged.                                                    *)
(***************************************************************************)
C10_ThresholdOneTimeCopy ==
    [][\A l \in Loggers :
          loggers'[l].threshold # loggers[l].threshold =>
             \/ \E t \in AssignedThresholds : SetThreshold(l, t)
             \/ /\ last'.op \in {"ChangeThreshold.__enter__", "ChangeThreshold.__exit__"}
                /\ last'.logger = l
             \/ /\ last'.op = "is_enabled_for" /\ last'.logger = l
                /\ loggers[l].threshold.k # "Level"
                /\ loggers'[l].threshold = Lv(loggers[l].threshold.v)]_vars

\* A ChangeThreshold scope of a logger with two children was entered: the
\* logger has the new threshold, both children the one they inherited.
C10_Witness ==
    /\ last.op = "ChangeThreshold.__enter__"
    /\ loggers[last.logger].threshold = Lv(error)
    /\ \E c1, c2 \in Loggers :
          /\ c1 # c2
          /\ loggers[c1].higher = last.logger /\ loggers[c2].higher = last.logger
          /\ loggers[c1].threshold = DEFAULT_THRESHOLD
          /\ loggers[c2].threshold = DEFAULT_THRESHOLD

(***************************************************************************)
(* C11  Scoped threshold restore.  Entering a ChangeThreshold scope yields *)
(* the threshold the logger has and sets it to the supplied value, made a  *)
(* Level, or kept as a raw integer if it is the value of no level.  When   *)
(* the scope is left, normally or by an exception, the threshold is again  *)
(* what it was when that scope was entered, whatever was assigned inside;  *)
(* so properly nested scopes restore in reverse order.                     *)
(***************************************************************************)
C11_ScopedThresholdRestore ==
    [][/\ \A i \in DOMAIN cts :
             (last'.op = "ChangeThreshold.__enter__" /\ last'.n = i) =>
                /\ last'.arg = loggers[cts[i].logger].threshold
                /\ loggers'[cts[i].logger].threshold = cts[i].level
                /\ \/ cts[i].level.k = "Level"
                   \/ cts[i].level.k = "int" /\ cts[i].level.v \notin LevelValues
       /\ last'.op = "ChangeThreshold.__exit__" =>
             loggers'[last'.logger].threshold = stack[Len(stack)].pre]_vars

(***************************************************************************)
(* C12  Scoped indentation.  Entering the indentation scope of a logger    *)
(* adds exactly 1 to its indent and yields the new value; leaving it,      *)
(* normally or by an exception, subtracts exactly 1; no enter or exit      *)
(* changes the indent of another logger.  So, from an indent n, the indent *)
(* is n plus the number of open scopes of the logger in every state, and   *)
(* n again when all are left.                                              *)
(***************************************************************************)
C12_ScopedIndentation ==
    [][/\ \A l \in Loggers :
             /\ (last'.op = "IndentLogger.__enter__" /\ last'.logger = l) =>
                   /\ loggers'[l].indent = loggers[l].indent + 1
                   /\ last'.arg = In(loggers[l].indent + 1)
                   /\ OpenScopes(l)' = OpenScopes(l) + 1
             /\ (last'.op = "IndentLogger.__exit__" /\ last'.logger = l) =>
                   /\ loggers'[l].indent = loggers[l].indent - 1
                   /\ OpenScopes(l)' = OpenScopes(l) - 1
             /\ last'.op # "none" =>
                   loggers'[l].indent - OpenScopes(l)'
                      = loggers[l].indent - OpenScopes(l)
             /\ OpenScopes(l) = 0 => loggers[l].indent \in Indents]_vars

\* The inner of two nested scopes of a logger whose indent was set to 3
\* was left by an exception: one scope is open and the indent is 4.
C12_Witness ==
    /\ last.op = "IndentLogger.__exit__"
    /\ last.arg = St("Exception")
    /\ OpenScopes(last.logger) = 1
    /\ loggers[last.logger].indent = 4

(***************************************************************************)
(* C13  Ordering within a log call that records.  The event is appended to *)
(* the history before any handler is invoked: every handler sees it as the *)
(* newest event of the history.  Then the handlers of the recording        *)
(* logger's list are invoked, each once, in list order, all with that      *)
(* event.                                                                  *)
(***************************************************************************)
C13_AppendThenDispatchInOrder ==
    [][\A l \in Loggers :
          (LogStep(l) /\ last'.ret = "LogEvent") =>
             LET r == Recorder(l)
                 hs == Handles(last'.trace)
             IN  /\ HistoryAppended(r)
                 /\ [i \in 1..Len(hs) |-> hs[i].handler] = hlists[loggers[r].handlers]
                 /\ \A i \in 1..Len(hs) :
                       /\ hs[i].logger = r
                       /\ hs[i].event = NewestEvent(r)'
                       /\ hs[i].n = Len(lists[loggers[r].list]) + 1]_vars

\* A log call has recorded an event and dispatched it to three handlers.
C13_Witness ==
    /\ last.op = "_log"
    /\ last.ret = "LogEvent"
    /\ Len(Handles(last.trace)) = 3
    /\ lists[loggers[Recorder(last.logger)].list] # <<>>

(***************************************************************************)
(* C14  Handler failure is not isolated.  If a handler raises during the   *)
(* dispatch of an event, the handlers before it in the list have been      *)
(* invoked, it was invoked once, no handler after it is invoked, the       *)
(* exception ends the log call, and the event is in the history.           *)
(***************************************************************************)
C14_HandlerFailureNotIsolated ==
    [][\A l \in Loggers :
          (LogStep(l) /\ Warnings(last'.trace, "raise") # <<>>) =>
             LET r == Recorder(l)
                 hs == Handles(last'.trace)
                 list == hlists[loggers[r].handlers]
                 k == Len(hs)
                 raised == Warnings(last'.trace, "raise")
             IN  /\ last'.ret = "HandlerError"
                 /\ Len(raised) = 1
                 /\ last'.trace[Len(last'.trace)] = raised[1]
                 /\ k >= 1 /\ k <= Len(list)
                 /\ raised[1].handler = list[k]
                 /\ \A i \in 1..k : hs[i].handler = list[i]
                 /\ HistoryAppended(r)
                 /\ NewestEvent(r)' = raised[1].event]_vars

\* The second of three handlers has raised: two handlers were invoked and
\* the call ended with the exception.
C14_Witness ==
    /\ last.op = "_log"
    /\ last.ret = "HandlerError"
    /\ Len(Handles(last.trace)) = 2
    /\ Len(hlists[loggers[Recorder(last.logger)].handlers]) = 3
    /\ lists[loggers[Recorder(last.logger)].list] # <<>>

(***************************************************************************)
(* C15  _inherit on a logger that has no parent fails with the ValueError  *)
(* "Cannot inherit if higher is None", and with no other error.            *)
(***************************************************************************)
C15_InheritWithoutParentIsValueError ==
    [][\A l \in Loggers :
          (last'.op = "_inherit" /\ last'.logger = l /\ loggers[l].higher = None) =>
             last'.ret = "ValueError"]_vars

(***************************************************************************)
(* C16  Equality is by the identity token only.  In every state, whatever  *)
(* the configuration of the loggers is: a == b exactly if a and b are the  *)
(* same logger, a != b is the negation of a == b, and against an object    *)
(* that is no logger both return NotImplemented.                           *)
(***************************************************************************)
C16_EqualityByIdentity ==
    \A a \in Loggers :
       /\ \A b \in Loggers :
             /\ Logger__eq__(loggers, a, b) = (IF a = b THEN "True" ELSE "False")
             /\ Logger__ne__(loggers, a, b) = (IF a = b THEN "False" ELSE "True")
       /\ Logger__eq__(loggers, a, OtherObject) = "NotImplemented"
       /\ Logger__ne__(loggers, a, OtherObject) = "NotImplemented"

\* Two siblings and their parent have the same value in every
\* configuration field, after one sibling inherited a second time.
C16_Witness ==
    /\ last.op = "_inherit"
    /\ \E a, b \in Loggers :
          /\ a # b /\ last.logger = a
          /\ loggers[a].higher = loggers[b].higher /\ loggers[a].higher # None
          /\ \A l \in {a, b} :
                /\ loggers[l].enabled = loggers[loggers[a].higher].enabled
                /\ loggers[l].propagate = loggers[loggers[a].higher].propagate
                /\ loggers[l].threshold = loggers[loggers[a].higher].threshold
                /\ loggers[l].format = loggers[loggers[a].higher].format
                /\ loggers[l].indent = loggers[loggers[a].higher].indent
                /\ hlists[loggers[l].handlers] = hlists[loggers[loggers[a].higher].handlers]
                /\ lists[loggers[l].list] = lists[loggers[loggers[a].higher].list]

(***************************************************************************)
(* C17  Coercion round trip.  For every level L, to_level of L, of the     *)
(* integer value of L, of the decimal string of that value and of every    *)
(* name of L returns the Level L; the aliases warn and fatal give warning  *)
(* and critical; and to_level of a Level it returned returns that Level.   *)
(***************************************************************************)
Represents(x, v) ==
    \/ x = Lv(v)
    \/ x = In(v)
    \/ x.k = "str" /\ x.s \in DecimalStrings /\ ParseDecimal(x.s) = v
    \/ x.k = "str" /\ x.s \in LevelNames /\ LevelByName(x.s) = Lv(v)

C17_CoercionRoundTrip ==
    last.op = "to_level" =>
       /\ \A v \in LevelValues :
             Represents(last.arg, v) => last.ret = "Level" /\ last.val = Lv(v)
       /\ last.arg = St("warn") => last.val = Lv(warning)
       /\ last.arg = St("fatal") => last.val = Lv(critical)
       /\ last.ret = "Level" =>
             /\ to_level(last.val, FALSE) = Ok(last.val)
             /\ to_level(last.val, TRUE) = Ok(last.val)

\* to_level was called with the decimal string of the value of CRITICAL.
C17_Witness ==
    /\ last.op = "to_level"
    /\ last.arg = St("50")
    /\ last.val = Lv(critical)

(***************************************************************************)
(* C18  Invalid input rejection.  For every x that is no Level, no value   *)
(* of a level and no name of a level, to_level(x) raises the ValueError    *)
(* that names x and returns nothing, and to_level(x, True) returns int(x)  *)
(* if int(x) exists and raises that ValueError otherwise.                  *)
(***************************************************************************)
MatchesNoLevel(x) ==
    /\ x.k # "Level"
    /\ ~(x.k = "int" /\ x.v \in LevelValues)
    /\ ~(x.k = "str" /\ x.s \in LevelNames)
    /\ ~(x.k = "str" /\ x.s \in DecimalStrings /\ ParseDecimal(x.s) \in LevelValues)

C18_InvalidInputRejected ==
    (last.op = "to_level" /\ MatchesNoLevel(last.arg)) =>
       IF last.n = 1 /\ IntCall(last.arg).ok
       THEN last.ret = "int" /\ last.val = IntCall(last.arg).val
       ELSE last.ret = "ValueError" /\ last.val = last.arg

(***************************************************************************)
(* C19  (as claimed)  Level names are matched whatever their case: for     *)
(* every name of a level L written in lower case, in upper case or         *)
(* capitalised, to_level returns L.                                        *)
(***************************************************************************)
C19_NamesMatchedCaseInsensitively ==
    (/\ last.op = "to_level" /\ last.arg.k = "str"
     /\ last.arg.s \in LevelNames \cup CaseVariants) =>
        last.ret = "Level" /\ last.val = LevelByName(Lower(last.arg.s))

(***************************************************************************)
(* C19  (amended)  Level names are matched exactly as the members are      *)
(* spelled, in lower case: to_level of such a name returns its Level, and  *)
(* to_level of the name in upper case or capitalised raises the ValueError *)
(* that names it, with and without the integer fallback.                   *)
(***************************************************************************)
C19_NamesMatchedCaseSensitively ==
    (last.op = "to_level" /\ last.arg.k = "str") =>
       /\ last.arg.s \in LevelNames =>
             last.ret = "Level" /\ last.val = LevelByName(last.arg.s)
       /\ last.arg.s \in CaseVariants =>
             last.ret = "ValueError" /\ last.val = last.arg

\* to_level was called with "WARNING" and the integer fallback.
C19_Witness ==
    /\ last.op = "to_level"
    /\ last.arg = St("WARNING")
    /\ last.n = 1
    /\ last.ret = "ValueError"

(***************************************************************************)
(* C20  (as claimed)  Propagation passes the event on unchanged: the event *)
(* that an ancestor records for a call that was propagated to it has the   *)
(* message, the level and the frame_depth that were given to the call,     *)
(* with no adjustment of the depth at any hop.                             *)
(***************************************************************************)
C20_PropagatesUnchanged ==
    [][\A l \in Loggers :
          (/\ LogStep(l) /\ last'.ret = "LogEvent"
           /\ loggers[l].propagate /\ loggers[l].higher # None) =>
              LET e == NewestEvent(Recorder(l))'
              IN  /\ e.msg \in {StrCall(m) : m \in Messages}
                  /\ Value(e.level) = Value(last'.arg)
                  /\ e.frame_depth = last'.n]_vars

(***************************************************************************)
(* C20  (amended)  The event that an ancestor records for a propagated     *)
(* call has the message and the level that were given to the call, and a   *)
(* frame_depth that is the one given plus 1 for every hop from the logger  *)
(* up to the ancestor.                                                     *)
(***************************************************************************)
C20_PropagatesWithDepthPerHop ==
    [][\A l \in Loggers :
          (/\ LogStep(l) /\ last'.ret = "LogEvent"
           /\ loggers[l].propagate /\ loggers[l].higher # None) =>
              LET e == NewestEvent(Recorder(l))'
              IN  /\ e.msg \in {StrCall(m) : m \in Messages}
                  /\ Value(e.level) = Value(last'.arg)
                  /\ e.frame_depth = last'.n + Len(PropagationPath(l)) - 1]_vars

\* A call was propagated over two hops and recorded with the depth it was
\* given plus 2.
C20_Witness ==
    /\ last.op = "_log"
    /\ last.ret = "LogEvent"
    /\ Len(PropagationPath(last.logger)) = 3
    /\ lists[loggers[Recorder(last.logger)].list] # <<>>
    /\ lists[loggers[Recorder(last.logger)].list][1].frame_depth = last.n + 2

(***************************************************************************)
(* Notions for the stream-writing handler.                                 *)
(***************************************************************************)
\* What a call did to streams, in order.
StreamCalls(trace) == SelectSeq(trace, LAMBDA e : e.e \in {"write", "flush"})

\* The step is a call of handle on logger l by a handler built for it.
HandleStep(l) == last'.op = "handle" /\ last'.logger = l /\ l \in Loggers

\* What the handler of the call has to write: the str format_msg returns
\* for the event while the logger's colors is the handler's use_colors, or
\* the message of the event if the handler does not format.
Rendered(l, c) ==
    IF c.w.format_msg
    THEN format_msg([State EXCEPT !.loggers[l].colors = c.w.use_colors,
                                  !.env = c.env], l, c.event).r
    ELSE Ok(<<Piece("msg", c.event.msg, 0, "")>>)

C29_HandlerRestoresColors ==
    [][\A l \in Loggers :
          HandleStep(l) =>
              LET c == last'.val
                  calls == StreamCalls(last'.trace)
              IN  /\ loggers' = loggers
                  /\ lists' = lists
                  /\ hlists' = hlists
                  /\ (c.w.format_msg /\ calls # <<>>
                        /\ Fields(loggers[l].format)[1] = "lvl") =>
                        calls[1].str[1] = level_to_str(c.w.use_colors, c.event.level)]_vars

\* A handler that uses colours has handled an event for a root that uses
\* none; the rendering raised, and the root still uses no colours.
C29_Witness ==
    /\ last.op = "handle"
    /\ last.val.w.use_colors /\ last.val.w.format_msg
    /\ last.ret = "KeyError"
    /\ ~loggers[last.logger].colors

(***************************************************************************)
(* C24  Asking for the traceback while no exception is being handled does  *)
(* not make the call fail.  A _log call with traceback = True that reaches *)
(* a logger which records (no rendering raising for another reason)        *)
(* appends the event, with its tb flag set, to the history, invokes every  *)
(* handler of the list in order and returns the event.  Each rendering of  *)
(* the event emits one "no traceback" warning, and there is no other       *)
(* signal: a str written for it carries the text of an empty traceback.    *)
(***************************************************************************)
\* The handlers of the list hs that render the events they handle.
Renderers(hs) ==
    SelectSeq(hs, LAMBDA h : h \in DOMAIN Writers /\ Writers[h].format_msg)

C24_MissingTracebackNotFatal ==
    [][\A l \in Loggers :
          (/\ LogStep(l) /\ last'.val.tb
           /\ ~last'.val.env.exc /\ last'.val.env.deep
           /\ \A k \in DOMAIN PropagationPath(l) : loggers[PropagationPath(l)[k]].enabled
           /\ ~loggers[Recorder(l)].propagate
           /\ Value(last'.arg) >= Value(loggers[Recorder(l)].threshold)) =>
              LET r == Recorder(l)
                  hs == hlists[loggers[r].handlers]
                  w == Warnings(last'.trace, "warn-no-traceback")
                  writes == SelectSeq(last'.trace, LAMBDA e : e.e = "write")
              IN  /\ last'.ret = "LogEvent"
                  /\ HistoryAppended(r)
                  /\ NewestEvent(r)'.tb
                  /\ [i \in DOMAIN Handles(last'.trace) |->
                         Handles(last'.trace)[i].handler] = hs
                  /\ Len(w) = Len(Renderers(hs))
                  /\ Len(Warnings(last'.trace, "raise")) = 0
                  /\ \A i \in DOMAIN writes :
                        Writers[writes[i].handler].format_msg =>
                            writes[i].str[Len(writes[i].str) - 1]
                                = Piece("tb", "\nNoneType: None\n", 0, "")]_vars

\* A child has logged with traceback = True while no exception was being
\* handled; its list has the default handler and one that does not
\* format: the event is in its history, both handlers wrote, and one
\* warning was emitted.
C24_Witness ==
    /\ last.op = "_log" /\ last.ret = "LogEvent"
    /\ last.val.tb /\ ~last.val.env.exc
    /\ last.logger # Root
    /\ hlists[loggers[last.logger].handlers] = <<StderrHandler, StderrHandler + 1>>
    /\ NewestEvent(last.logger).tb
    /\ Len(Warnings(last.trace, "warn-no-traceback")) = 1
    /\ Len(StreamCalls(last.trace)) = 3

(***************************************************************************)
(* C22  Histories only grow at their end.  No step - a log call with the   *)
(* dispatch to the handlers, the creation of a child, the entry to or exit *)
(* from a scope - rebinds the history of a logger, or removes, moves or    *)
(* changes an event that is in a history: every history list is after the  *)
(* step what it was before, followed by at most one new event, and a log   *)
(* call adds an event to at most one list.                                 *)
(***************************************************************************)
IsPrefix(s, t) == Len(s) <= Len(t) /\ SubSeq(t, 1, Len(s)) = s

C22_HistoryAppendOnly ==
    [][/\ \A l \in Loggers : loggers'[l].list = loggers[l].list
       /\ \A o \in DOMAIN lists :
             /\ IsPrefix(lists[o], lists'[o])
             /\ Len(lists'[o]) <= Len(lists[o]) + 1
       /\ Cardinality({o \in DOMAIN lists : lists'[o] # lists[o]}) <= 1
       /\ last'.op # "_log" => \A o \in DOMAIN lists : lists'[o] = lists[o]]_vars

\* A logger has recorded an event inside an indentation scope after one
\* it recorded outside: the earlier event is first, as it was.
C22_Witness ==
    /\ last.op = "_log" /\ last.ret = "LogEvent"
    /\ stack # <<>>
    /\ Len(lists[loggers[last.logger].list]) = 2
    /\ lists[loggers[last.logger].list][1].indent = 0
    /\ lists[loggers[last.logger].list][2].indent = 1

(***************************************************************************)
(* C23  Each of debug, info, warning, error and critical, called on an     *)
(* enabled logger that does not propagate, appends exactly one event to    *)
(* the logger's history if the logger's threshold is at or below the level *)
(* of the method: the level of the event is the Level of the method, its   *)
(* message is str() of the argument and its indent is the indent the       *)
(* logger has.  If the threshold is above the level of the method no       *)
(* history changes.                                                        *)
(***************************************************************************)
C23_LevelMethods ==
    [][\A l \in Loggers :
          (/\ last'.op \in MethodNames /\ last'.logger = l
           /\ loggers[l].enabled /\ ~loggers[l].propagate) =>
              IF Value(loggers[l].threshold) <= LevelByName(last'.op).v
              THEN /\ HistoryAppended(l)
                   /\ \A o \in DOMAIN lists : o # loggers[l].list => lists'[o] = lists[o]
                   /\ NewestEvent(l)'.level = LevelByName(last'.op)
                   /\ NewestEvent(l)'.msg = StrCall(last'.val.msg)
                   /\ NewestEvent(l)'.indent = loggers[l].indent
                   /\ last'.ret = "LogEvent"
              ELSE lists' = lists /\ last'.ret = "None"]_vars

\* warning(5) was called on a logger inside an indentation scope whose
\* threshold is WARNING: the event has the level WARNING, the message "5"
\* and the indent 1.
C23_Witness ==
    /\ last.op = "warning" /\ last.val.msg = In(5)
    /\ loggers[last.logger].threshold = Lv(warning)
    /\ loggers[last.logger].indent = 1
    /\ last.ret = "LogEvent"
    /\ NewestEvent(last.logger) = LogEvent("5", Lv(warning), 1, 4, last.val.tb)

(***************************************************************************)
(* C25  The event is built by the logger that records it.  When a _log     *)
(* call made with the depth d on a logger is handed up over k loggers and  *)
(* recorded, the event appended to the recorder's history has the indent   *)
(* the recorder has at that time, whatever the indent of the logger the    *)
(* call was made on, and the frame_depth d + k; for k = 0 that is the      *)
(* logger's own indent and the depth d.                                    *)
(***************************************************************************)
C25_EventBuiltByRecorder ==
    [][\A l \in Loggers :
          (LogStep(l) /\ last'.ret = "LogEvent") =>
              LET r == Recorder(l)
                  k == Len(PropagationPath(l)) - 1
              IN  /\ HistoryAppended(r)
                  /\ NewestEvent(r)'.indent = loggers[r].indent
                  /\ NewestEvent(r)'.frame_depth = last'.n + k]_vars

\* A child inside an indentation scope of its own has propagated a call
\* to its parent, which is inside none: the event has the indent 0 and
\* the depth given plus 1.
C25_Witness ==
    /\ last.op = "_log" /\ last.ret = "LogEvent"
    /\ Len(PropagationPath(last.logger)) = 2
    /\ loggers[last.logger].indent = 1
    /\ loggers[Recorder(last.logger)].indent = 0
    /\ NewestEvent(Recorder(last.logger)).indent = 0
    /\ NewestEvent(Recorder(last.logger)).frame_depth = last.n + 1

(***************************************************************************)
(* C26  Every _log call terminates.  A pending call always comes to an     *)
(* end.  The loggers whose _log ran for it are the logger it was made on   *)
(* and then, each the parent of the one before, ancestors of it, none      *)
(* twice.  It ends in exactly one of four ways: at a disabled logger,      *)
(* with nothing done; at a propagating root, with the warning and nothing  *)
(* else done; at an enabled logger that does not propagate and whose       *)
(* threshold is above the level, with nothing done; or at such a logger    *)
(* whose threshold admits the level, which records the event.  What the    *)
(* frames did together is what _log does.                                  *)
(***************************************************************************)
\* The loggers whose _log ran, in order.
Visited(trace) == [i \in DOMAIN LogCalls(trace) |-> LogCalls(trace)[i].logger]

LogOutcome(l) ==
    LET path == Visited(last'.trace)
        end == path[Len(path)]
        quiet == lists' = lists /\ loggers' = loggers /\ last'.ret = "None"
                    /\ Handles(last'.trace) = <<>>
        warned == Len(Warnings(last'.trace, "warn-root-propagate"))
        admits == Value(last'.arg) >= Value(loggers[end].threshold)
        disabled == ~loggers[end].enabled /\ quiet /\ warned = 0
        rootwarn == /\ loggers[end].enabled /\ loggers[end].propagate
                    /\ loggers[end].higher = None /\ quiet /\ warned = 1
        below == /\ loggers[end].enabled /\ ~loggers[end].propagate
                 /\ ~admits /\ quiet /\ warned = 0
        recorded == /\ loggers[end].enabled /\ ~loggers[end].propagate
                    /\ admits /\ warned = 0
                    /\ last'.ret = "LogEvent" /\ HistoryAppended(end)
                    /\ \A o \in DOMAIN lists : o # loggers[end].list => lists'[o] = lists[o]
    IN  /\ path # <<>> /\ path[1] = l
        /\ \A i \in 1..(Len(path) - 1) :
              /\ path[i + 1] = loggers[path[i]].higher
              /\ loggers[path[i]].enabled /\ loggers[path[i]].propagate
        /\ \A i, j \in DOMAIN path : i # j => path[i] # path[j]
        /\ Cardinality({o \in {"disabled", "rootwarn", "below", "recorded"} :
                           \/ o = "disabled" /\ disabled
                           \/ o = "rootwarn" /\ rootwarn
                           \/ o = "below" /\ below
                           \/ o = "recorded" /\ recorded}) = 1

C26_LogCallTerminates ==
    /\ [][\A l \in Loggers :
             (LogStep(l) /\ last.ret = "pending") =>
                 /\ LogOutcome(l)
                 /\ LET c == _log(State, l, last'.arg, last'.val.msg,
                                  last'.val.traceback, last'.n)
                    IN  /\ c.loggers = loggers' /\ c.lists = lists'
                        /\ c.ret = last'.ret /\ c.trace = last'.trace]_vars
    /\ (last.ret = "pending") ~> (last.ret # "pending")

\* A call made on a grandchild went up to the root over two propagating
\* loggers and was recorded there.
C26_Witness ==
    /\ last.op = "_log" /\ last.ret = "LogEvent"
    /\ Len(Visited(last.trace)) = 3
    /\ Visited(last.trace)[3] = Root
    /\ Visited(last.trace)[1] = last.logger

(***************************************************************************)
(* Notions for the threads.                                                *)
(***************************************************************************)
\* The position of thread t's step e among the steps made.
StepAt(e, t) == CHOOSE i \in DOMAIN last.trace : last.trace[i] = ThreadStep(e, t)

C27_FailedInheritChangesNothing ==
    [][\A l \in Loggers :
          (/\ last'.op = "_inherit" /\ last'.logger = l
           /\ loggers[l].higher = None /\ last'.ret # "None") =>
             /\ loggers'[l].propagate = loggers[l].propagate
             /\ loggers'[l]._id = loggers[l]._id
             /\ HistoryUnchanged(l)
             /\ loggers'[l].indent = loggers[l].indent
             /\ loggers'[l].enabled = loggers[l].enabled]_vars

====
